---- MODULE Spec2Model ----
(***************************************************************************)
(* A model of the natsuzora template engine (rust/crates/natsuzora and     *)
(* rust/crates/natsuzora-ast): the runtime value model, the rendering      *)
(* context, the partial loader with its sandbox, cache and include stack,  *)
(* and the tree-walking renderer as a machine of explicit call frames;     *)
(* natsuzora_ast::parse of lib.rs, which builds the template from the tree *)
(* that tree_sitter makes of the source; and the lexer, token processor    *)
(* and parser of lexer.rs, token_processor.rs and parser.rs, which lib.rs  *)
(* does not declare as modules.                                            *)
(*                                                                         *)
(* A Rust String is a sequence of one-character strings; a HashMap is a    *)
(* function; Result<T> is a record [ok |-> TRUE, val |-> T] or             *)
(* [ok |-> FALSE, err |-> kind, msg |-> message prefix].                   *)
(***************************************************************************)
EXTENDS Integers, Sequences, FiniteSets, TLC

(***************************************************************************)
(* Bounds of the model.                                                    *)
(***************************************************************************)
\* longest string value drawn for the data
MaxStrLen == 2
\* longest array drawn for the data
MaxArrLen == 2
\* number of render calls made in one behaviour
MaxRenders == 2

(***************************************************************************)
(* Result<T>                                                               *)
(***************************************************************************)
Ok(x) == [ok |-> TRUE, val |-> x]
Err(kind, message) == [ok |-> FALSE, err |-> kind, msg |-> message]

(***************************************************************************)
(* Strings                                                                 *)
(***************************************************************************)
Last(s) == s[Len(s)]
Front(s) == SubSeq(s, 1, Len(s) - 1)

RECURSIVE Concat(_)
\* the concatenation of a sequence of strings
Concat(ss) == IF ss = <<>> THEN <<>> ELSE Head(ss) \o Concat(Tail(ss))

\* str::contains for a pattern given as a string
Contains(s, pat) ==
    \E i \in 1..(Len(s) - Len(pat) + 1) : SubSeq(s, i, i + Len(pat) - 1) = pat

StartsWith(s, pre) == Len(s) >= Len(pre) /\ SubSeq(s, 1, Len(pre)) = pre
EndsWith(s, suf) == Len(s) >= Len(suf) /\ SubSeq(s, Len(s) - Len(suf) + 1, Len(s)) = suf

(***************************************************************************)
(* html_escape::escape                                                     *)
(***************************************************************************)
\* escape_char without the arm for the apostrophe
escape_char_no_apostrophe(c) ==
    CASE c = "&" -> <<"&", "a", "m", "p", ";">>
      [] c = "<" -> <<"&", "l", "t", ";">>
      [] c = ">" -> <<"&", "g", "t", ";">>
      [] c = "\"" -> <<"&", "q", "u", "o", "t", ";">>
      [] OTHER -> <<c>>

\* one arm of the match in escape
escape_char(c) ==
    CASE c = "&" -> <<"&", "a", "m", "p", ";">>
      [] c = "<" -> <<"&", "l", "t", ";">>
      [] c = ">" -> <<"&", "g", "t", ";">>
      [] c = "\"" -> <<"&", "q", "u", "o", "t", ";">>
      [] c = "'" -> <<"&", "#", "3", "9", ";">>
      [] OTHER -> <<c>>

RECURSIVE escape(_)
escape(input) ==
    IF input = <<>> THEN <<>> ELSE escape_char(Head(input)) \o escape(Tail(input))

(***************************************************************************)
(* i64::to_string, and the range of integers                               *)
(***************************************************************************)
DigitChars == <<"0", "1", "2", "3", "4", "5", "6", "7", "8", "9">>

RECURSIVE DecDigits(_)
\* the decimal digits of n >= 0, most significant first
DecDigits(n) == IF n < 10 THEN <<n>> ELSE DecDigits(n \div 10) \o <<n % 10>>

Abs(n) == IF n < 0 THEN -n ELSE n

to_string(n) ==
    (IF n < 0 THEN <<"-">> ELSE <<>>)
        \o [i \in 1..Len(DecDigits(Abs(n))) |-> DigitChars[DecDigits(Abs(n))[i] + 1]]

\* INTEGER_MAX = 9_007_199_254_740_991 = -INTEGER_MIN, as decimal digits
INTEGER_MAX_DIGITS == <<9, 0, 0, 7, 1, 9, 9, 2, 5, 4, 7, 4, 0, 9, 9, 1>>

RECURSIVE DigitsGreater(_, _)
\* a > b for two digit sequences of the same length
DigitsGreater(a, b) ==
    IF a = <<>> THEN FALSE
    ELSE IF Head(a) # Head(b) THEN Head(a) > Head(b)
    ELSE DigitsGreater(Tail(a), Tail(b))

\* n < INTEGER_MIN || n > INTEGER_MAX
integer_out_of_range(n) ==
    LET d == DecDigits(Abs(n))
    IN  \/ Len(d) > Len(INTEGER_MAX_DIGITS)
        \/ Len(d) = Len(INTEGER_MAX_DIGITS) /\ DigitsGreater(d, INTEGER_MAX_DIGITS)

(***************************************************************************)
(* value::Value                                                            *)
(***************************************************************************)
Null == [t |-> "Null"]
Bool(b) == [t |-> "Bool", b |-> b]
Integer(n) == [t |-> "Integer", n |-> n]
String(s) == [t |-> "String", s |-> s]
Array(a) == [t |-> "Array", a |-> a]
Object(o) == [t |-> "Object", o |-> o]

\* is_truthy with every integer truthy
is_truthy_true_for_zero(v) ==
    CASE v.t = "Null" -> FALSE
      [] v.t = "Bool" -> v.b
      [] v.t = "Integer" -> TRUE
      [] v.t = "String" -> v.s # <<>>
      [] v.t = "Array" -> v.a # <<>>
      [] v.t = "Object" -> DOMAIN v.o # {}

is_truthy(v) ==
    CASE v.t = "Null" -> FALSE
      [] v.t = "Bool" -> v.b
      [] v.t = "Integer" -> v.n # 0
      [] v.t = "String" -> v.s # <<>>
      [] v.t = "Array" -> v.a # <<>>
      [] v.t = "Object" -> DOMAIN v.o # {}

\* stringify with booleans written as true / false
stringify_bool_as_text(v) ==
    CASE v.t = "String" -> Ok(v.s)
      [] v.t = "Integer" ->
            IF integer_out_of_range(v.n)
            THEN Err("TypeError", "Integer out of range")
            ELSE Ok(to_string(v.n))
      [] v.t = "Null" -> Err("TypeError", "Cannot stringify null value without '?' modifier")
      [] v.t = "Bool" -> Ok(IF v.b THEN <<"t", "r", "u", "e">> ELSE <<"f", "a", "l", "s", "e">>)
      [] v.t = "Array" -> Err("TypeError", "Cannot stringify array")
      [] v.t = "Object" -> Err("TypeError", "Cannot stringify object")

stringify(v) ==
    CASE v.t = "String" -> Ok(v.s)
      [] v.t = "Integer" ->
            IF integer_out_of_range(v.n)
            THEN Err("TypeError", "Integer out of range")
            ELSE Ok(to_string(v.n))
      [] v.t = "Null" -> Err("TypeError", "Cannot stringify null value without '?' modifier")
      [] v.t = "Bool" -> Err("TypeError", "Cannot stringify boolean value")
      [] v.t = "Array" -> Err("TypeError", "Cannot stringify array")
      [] v.t = "Object" -> Err("TypeError", "Cannot stringify object")

stringify_nullable(v) == IF v.t = "Null" THEN Ok(<<>>) ELSE stringify(v)

is_null(v) == v.t = "Null"

is_empty_string(v) == v.t = "String" /\ v.s = <<>>

stringify_required(v) ==
    IF is_null(v) THEN Err("TypeError", "Cannot stringify null value with '!' modifier")
    ELSE IF is_empty_string(v)
    THEN Err("TypeError", "Cannot stringify empty string with '!' modifier")
    ELSE stringify(v)

type_name(v) ==
    CASE v.t = "Null" -> "NilClass"
      [] v.t = "Bool" -> IF v.b THEN "TrueClass" ELSE "FalseClass"
      [] v.t = "Integer" -> "Integer"
      [] v.t = "String" -> "String"
      [] v.t = "Array" -> "Array"
      [] v.t = "Object" -> "Hash"

(***************************************************************************)
(* context::Context: the root object and the stack of local scopes         *)
(***************************************************************************)
\* the newest scope that binds name, or 0
NewestScopeWith(local_stack, name) ==
    LET hits == {i \in 1..Len(local_stack) : name \in DOMAIN local_stack[i]}
    IN  IF hits = {} THEN 0 ELSE CHOOSE i \in hits : \A j \in hits : j <= i

\* resolve_name taking a name bound nowhere for null
resolve_name_or_null(root, local_stack, name) ==
    LET i == NewestScopeWith(local_stack, name)
    IN  IF i # 0 THEN Ok(local_stack[i][name])
        ELSE IF name \in DOMAIN root THEN Ok(root[name])
        ELSE Ok(Null)

resolve_name(root, local_stack, name) ==
    LET i == NewestScopeWith(local_stack, name)
    IN  IF i # 0 THEN Ok(local_stack[i][name])
        ELSE IF name \in DOMAIN root THEN Ok(root[name])
        ELSE Err("UndefinedVariable", name)

\* access_property reporting a missing member for every value without one
access_property_untyped(value, key) ==
    IF value.t = "Object" /\ key \in DOMAIN value.o THEN Ok(value.o[key])
    ELSE Err("UndefinedVariable", key)

access_property(value, key) ==
    IF value.t = "Object"
    THEN IF key \in DOMAIN value.o THEN Ok(value.o[key]) ELSE Err("UndefinedVariable", key)
    ELSE Err("TypeError", "Cannot access property on non-object")

RECURSIVE access_path(_, _)
\* the loop of resolve over path[1..]
access_path(res, segments) ==
    IF ~res.ok \/ segments = <<>> THEN res
    ELSE access_path(access_property(res.val, Head(segments)), Tail(segments))

resolve(root, local_stack, path) ==
    IF path = <<>> THEN Err("UndefinedVariable", "<empty path>")
    ELSE access_path(resolve_name(root, local_stack, Head(path)), Tail(path))

name_exists(root, local_stack, name) ==
    \/ \E i \in 1..Len(local_stack) : name \in DOMAIN local_stack[i]
    \/ name \in DOMAIN root

\* the results validate_no_shadowing can return: `bindings.keys()` iterates a
\* HashMap in an order that differs from call to call, so when several names
\* exist already the error names any one of them
validate_no_shadowing(root, local_stack, bindings) ==
    LET existing == {name \in DOMAIN bindings : name_exists(root, local_stack, name)}
    IN  IF existing = {} THEN {Ok(<<>>)}
        ELSE {Err("ShadowingError", name) : name \in existing}

\* the results push_scope can return: the new local stack, or a ShadowingError
push_scope(root, local_stack, bindings) ==
    {IF ~checked.ok THEN checked ELSE Ok(Append(local_stack, bindings)) :
        checked \in validate_no_shadowing(root, local_stack, bindings)}

\* push_include_scope refusing, as push_scope does, a name that already resolves
push_include_scope_checked(root, local_stack, bindings) ==
    IF \E name \in DOMAIN bindings : name_exists(root, local_stack, name)
    THEN local_stack
    ELSE Append(local_stack, bindings)

push_include_scope(root, local_stack, bindings) == Append(local_stack, bindings)

\* Vec::pop: nothing happens on an empty stack
pop_scope(local_stack) == IF local_stack = <<>> THEN <<>> ELSE Front(local_stack)

\* get_array_len that counts the members of an object and the characters of a string
get_array_len_counting_members(root, local_stack, path) ==
    LET value == resolve(root, local_stack, path)
    IN  IF ~value.ok THEN value
        ELSE IF value.val.t = "Array" THEN Ok(Len(value.val.a))
        ELSE IF value.val.t = "Object" THEN Ok(Cardinality(DOMAIN value.val.o))
        ELSE IF value.val.t = "String" THEN Ok(Len(value.val.s))
        ELSE Err("TypeError", "Expected array")

get_array_len(root, local_stack, path) ==
    LET value == resolve(root, local_stack, path)
    IN  IF ~value.ok THEN value
        ELSE IF value.val.t = "Array" THEN Ok(Len(value.val.a))
        ELSE Err("TypeError", "Expected array")

\* get_array_item counting from the end of the array
get_array_item_reversed(root, local_stack, path, index) ==
    LET value == resolve(root, local_stack, path)
    IN  IF ~value.ok THEN value
        ELSE IF value.val.t = "Array"
        THEN IF index < Len(value.val.a) THEN Ok(value.val.a[Len(value.val.a) - index])
             ELSE Err("TypeError", "Array index out of bounds")
        ELSE Err("TypeError", "Expected array")

\* index counts from 0
get_array_item(root, local_stack, path, index) ==
    LET value == resolve(root, local_stack, path)
    IN  IF ~value.ok THEN value
        ELSE IF value.val.t = "Array"
        THEN IF index < Len(value.val.a) THEN Ok(value.val.a[index + 1])
             ELSE Err("TypeError", "Array index out of bounds")
        ELSE Err("TypeError", "Expected array")

\* Context::new
context_new(root_data) ==
    IF root_data.t = "Object" THEN Ok(root_data.o)
    ELSE Err("TypeError", "Root data must be an object")

(***************************************************************************)
(* The filesystem seen by the loader.  A path is a sequence of components  *)
(* below "/", a component is a string.  fs maps each existing path to      *)
(* [type |-> "dir"], [type |-> "file", content, readable] or               *)
(* [type |-> "link", target] with an absolute target.  The content of a    *)
(* file is held as the Tree that tree_sitter makes of its text.            *)
(***************************************************************************)
Dir == [type |-> "dir"]
File(content) == [type |-> "file", content |-> content, readable |-> TRUE]
UnreadableFile == [type |-> "file", content |-> Err("ParseError", ""), readable |-> FALSE]
Link(target) == [type |-> "link", target |-> target]

\* let v = value; In(v): the value is computed once
Bind(value, In(_)) == CHOOSE result \in {In(v) : v \in {value}} : TRUE

RECURSIVE Walk(_, _, _, _)
\* std::fs::canonicalize: every component exists, symbolic links are followed,
\* `fuel` of them at most
Walk(fs, done, rest, fuel) ==
    IF rest = <<>> THEN Ok(done)
    ELSE Bind(Append(done, Head(rest)), LAMBDA p :
         Bind(Tail(rest), LAMBDA tail :
             IF p \notin DOMAIN fs THEN Err("IoError", "No such file or directory")
             ELSE CASE fs[p].type = "dir" -> Walk(fs, p, tail, fuel)
                    [] fs[p].type = "file" ->
                          IF tail = <<>> THEN Ok(p)
                          ELSE Err("IoError", "Not a directory")
                    [] fs[p].type = "link" ->
                          IF fuel = 0 THEN Err("IoError", "Too many levels of symbolic links")
                          ELSE Bind(fs[p].target \o tail, LAMBDA target :
                               Walk(fs, <<>>, target, fuel - 1))))

\* the symbolic links the platform follows while it resolves one path
\* (ELOOP, "Too many levels of symbolic links", at the next one)
MaxSymlinks == 40

canonicalize(fs, path) ==
    Bind(path, LAMBDA p : Walk(fs, <<>>, p, MaxSymlinks))

\* Path::exists
exists(fs, path) == canonicalize(fs, path).ok

\* Path::is_file
is_file(fs, path) ==
    LET c == canonicalize(fs, path)
    IN  c.ok /\ c.val # <<>> /\ fs[c.val].type = "file"

\* Path::starts_with, by whole components
path_starts_with(path, base) == StartsWith(path, base)

\* fs::read_to_string of a path for which is_file holds
read_to_string(fs, path) ==
    LET f == fs[canonicalize(fs, path).val]
    IN  IF f.readable THEN Ok(f.content) ELSE Err("IoError", "read failure")

(***************************************************************************)
(* template_loader: names and paths                                        *)
(***************************************************************************)
Lower == {"a", "b", "c", "d", "e", "f", "g", "h", "i", "j", "k", "l", "m",
          "n", "o", "p", "q", "r", "s", "t", "u", "v", "w", "x", "y", "z"}
Upper == {"A", "B", "C", "D", "E", "F", "G", "H", "I", "J", "K", "L", "M",
          "N", "O", "P", "Q", "R", "S", "T", "U", "V", "W", "X", "Y", "Z"}
is_ascii_alphabetic(c) == c \in Lower \cup Upper
is_ascii_digit(c) == c \in {"0", "1", "2", "3", "4", "5", "6", "7", "8", "9"}
is_ascii_alphanumeric(c) == is_ascii_alphabetic(c) \/ is_ascii_digit(c)

is_valid_segment(segment) ==
    /\ segment # <<>>
    /\ is_ascii_alphabetic(Head(segment))
    /\ \A i \in 2..Len(segment) : is_ascii_alphanumeric(segment[i]) \/ segment[i] = "_"

RECURSIVE SplitFrom(_, _, _)
\* str::split(sep): the pieces of s, cur being the piece under way
SplitFrom(s, sep, cur) ==
    IF s = <<>> THEN <<cur>>
    ELSE IF Head(s) = sep THEN <<cur>> \o SplitFrom(Tail(s), sep, <<>>)
    ELSE SplitFrom(Tail(s), sep, Append(cur, Head(s)))

\* name.split('/').filter(|s| !s.is_empty())
Segments(name) == SelectSeq(SplitFrom(name, "/", <<>>), LAMBDA seg : seg # <<>>)

validate_include_name(name) ==
    IF ~StartsWith(name, <<"/">>)
    THEN Err("IncludeError", "Include name must start with '/'")
    ELSE IF \/ Contains(name, <<".", ".">>) \/ Contains(name, <<"/", "/">>)
            \/ Contains(name, <<"\\">>) \/ Contains(name, <<":">>)
    THEN Err("IncludeError", "Invalid include name (path traversal)")
    ELSE IF \E i \in 1..Len(Segments(name)) : ~is_valid_segment(Segments(name)[i])
    THEN Err("IncludeError", "Invalid include segment")
    ELSE Ok(<<>>)

\* the position of the last "." of a file name, or 0
LastDot(file_name) ==
    LET dots == {i \in 1..Len(file_name) : file_name[i] = "."}
    IN  IF dots = {} THEN 0 ELSE CHOOSE i \in dots : \A j \in dots : j <= i

\* PathBuf::set_extension: the extension of the last component is replaced
set_extension(path, extension) ==
    IF path = <<>> THEN path
    ELSE LET file_name == Last(path)
             dot == LastDot(file_name)
             stem == IF dot > 1 THEN SubSeq(file_name, 1, dot - 1) ELSE file_name
         IN  Append(Front(path), stem \o <<".">> \o extension)

resolve_template_path(include_root, name) ==
    LET segments == Segments(name)
        renamed == IF segments = <<>> THEN segments
                   ELSE Append(Front(segments), <<"_">> \o Last(segments))
    IN  set_extension(include_root \o renamed, <<"n", "t", "z", "r">>)

RECURSIVE split_existing_parent_from(_, _, _)
\* the loop of split_existing_parent; missing_segments already reversed
split_existing_parent_from(fs, cursor, missing_segments) ==
    IF exists(fs, cursor) \/ cursor = <<>>
    THEN [existing_parent |-> cursor, missing_segments |-> missing_segments]
    ELSE Bind(Front(cursor), LAMBDA parent :
         Bind(<<Last(cursor)>> \o missing_segments, LAMBDA missing :
         split_existing_parent_from(fs, parent, missing)))

split_existing_parent(fs, path) == split_existing_parent_from(fs, path, <<>>)

canonicalize_candidate(fs, path) ==
    IF exists(fs, path)
    THEN canonicalize(fs, path)
    ELSE Bind(split_existing_parent(fs, path), LAMBDA split :
         Bind(canonicalize(fs, split.existing_parent), LAMBDA resolved :
             IF ~resolved.ok
             THEN Err("IncludeError", "Failed to resolve include path")
             ELSE Ok(resolved.val \o split.missing_segments)))

\* within_root accepting every path
within_root_always(include_root, path) == TRUE

within_root(include_root, path) ==
    path = include_root \/ path_starts_with(path, include_root)

ensure_within_root(fs, include_root, path) ==
    Bind(canonicalize_candidate(fs, path), LAMBDA candidate :
        IF ~candidate.ok THEN candidate
        ELSE IF within_root(include_root, candidate.val) THEN Ok(<<>>)
        ELSE Err("IncludeError", "Path traversal detected"))

\* IncludePathResolver::new: the canonical include root, or the error
resolver_new(fs, include_root) ==
    LET c == canonicalize(fs, include_root)
    IN  IF c.ok THEN c ELSE Err("IncludeError", "Invalid include root")

(***************************************************************************)
(* natsuzora_ast: the syntax tree                                          *)
(***************************************************************************)
WhitespaceControl(trim_before, trim_after) ==
    [trim_before |-> trim_before, trim_after |-> trim_after]
\* WhitespaceControl::default()
NoWs == WhitespaceControl(FALSE, FALSE)
None == [some |-> FALSE]
Some(x) == [some |-> TRUE, val |-> x]

TextNode(content) == [k |-> "Text", content |-> content]
VariableNode(path, modifier, whitespace) ==
    [k |-> "Variable", path |-> path, modifier |-> modifier, whitespace |-> whitespace]
UnsecureNode(path, whitespace) ==
    [k |-> "Unsecure", path |-> path, whitespace |-> whitespace]
CommentNode(whitespace) == [k |-> "Comment", whitespace |-> whitespace]
IfBlock(condition, then_branch, else_branch, ws_open, ws_else, ws_close) ==
    [k |-> "If", condition |-> condition, then_branch |-> then_branch,
     else_branch |-> else_branch, whitespace_open |-> ws_open,
     whitespace_else |-> ws_else, whitespace_close |-> ws_close]
UnlessBlock(condition, body, ws_open, ws_close) ==
    [k |-> "Unless", condition |-> condition, body |-> body,
     whitespace_open |-> ws_open, whitespace_close |-> ws_close]
EachBlock(collection, item_ident, body, ws_open, ws_close) ==
    [k |-> "Each", collection |-> collection, item_ident |-> item_ident, body |-> body,
     whitespace_open |-> ws_open, whitespace_close |-> ws_close]
IncludeArg(name, value) == [name |-> name, value |-> value]
IncludeNode(name, args, whitespace) ==
    [k |-> "Include", name |-> name, args |-> args, whitespace |-> whitespace]
\* the location field that every node and every IncludeArg has; the renderer
\* reads the other fields, and the templates written down as inputs leave it out
Located(node, location) == node @@ [location |-> location]

(***************************************************************************)
(* renderer: the pure parts                                                *)
(***************************************************************************)
\* the argument loop handing each argument the arguments before it
resolve_args_seeing_earlier(root, local_stack, args) ==
    [i \in 1..Len(args) |->
        resolve(root,
                Append(local_stack,
                       [key \in {args[j].name : j \in 1..(i - 1)} |->
                           LET earlier == CHOOSE j \in 1..(i - 1) : args[j].name = key
                               value == resolve(root, local_stack, args[earlier].value)
                           IN  IF value.ok THEN value.val ELSE Null]),
                args[i].value)]

\* the argument loop of render_include: every path against the caller's context
resolve_args(root, local_stack, args) ==
    [i \in 1..Len(args) |-> resolve(root, local_stack, args[i].value)]

IsBlank(c) == c = " " \/ c = "\t"

RECURSIVE trim_trailing_whitespace(_)
\* s.trim_end_matches(|c| c == ' ' || c == '\t')
trim_trailing_whitespace(s) ==
    IF s # <<>> /\ IsBlank(Last(s)) THEN trim_trailing_whitespace(Front(s)) ELSE s

RECURSIVE SkipBlanks(_)
SkipBlanks(s) == IF s # <<>> /\ IsBlank(Head(s)) THEN SkipBlanks(Tail(s)) ELSE s

\* leading spaces/tabs, then one "\n", "\r" or "\r\n"
trim_leading_whitespace(s) ==
    LET rest == SkipBlanks(s)
    IN  IF rest # <<>> /\ Head(rest) = "\n" THEN Tail(rest)
        ELSE IF rest # <<>> /\ Head(rest) = "\r"
        THEN IF Tail(rest) # <<>> /\ Head(Tail(rest)) = "\n"
             THEN Tail(Tail(rest)) ELSE Tail(rest)
        ELSE rest

render_variable(root, local_stack, node) ==
    LET value == resolve(root, local_stack, node.path)
        str_value == CASE node.modifier = "None" -> stringify(value.val)
                       [] node.modifier = "Nullable" -> stringify_nullable(value.val)
                       [] node.modifier = "Required" -> stringify_required(value.val)
    IN  IF ~value.ok THEN value
        ELSE IF ~str_value.ok THEN str_value
        ELSE Ok(escape(str_value.val))

\* render_unsecure escaping as render_variable does
render_unsecure_escaped(root, local_stack, node) ==
    LET value == resolve(root, local_stack, node.path)
    IN  IF ~value.ok THEN value
        ELSE IF ~stringify(value.val).ok THEN stringify(value.val)
        ELSE Ok(escape(stringify(value.val).val))

render_unsecure(root, local_stack, node) ==
    LET value == resolve(root, local_stack, node.path)
    IN  IF ~value.ok THEN value ELSE stringify(value.val)

(***************************************************************************)
(* natsuzora_ast::token and natsuzora_ast::lexer.  The source is a         *)
(* sequence of bytes, each written as a one-character string (a byte above *)
(* 0x7F as its two hexadecimal digits); positions count from 0.            *)
(***************************************************************************)
Location(line, column, byte_offset) ==
    [line |-> line, column |-> column, byte_offset |-> byte_offset]

Token(token_type, value, location) ==
    [token_type |-> token_type, value |-> value, location |-> location]

\* TokenType::literal for the token types that have one
literal(token_type) ==
    CASE token_type = "Percent" -> <<"%">>
      [] token_type = "Dash" -> <<"-">>
      [] token_type = "Close" -> <<"]", "}">>
      [] token_type = "Hash" -> <<"#">>
      [] token_type = "Slash" -> <<"/">>
      [] token_type = "BangUnsecure" -> <<"!", "u", "n", "s", "e", "c", "u", "r", "e">>
      [] token_type = "BangInclude" -> <<"!", "i", "n", "c", "l", "u", "d", "e">>
      [] token_type = "Exclamation" -> <<"!">>
      [] token_type = "KwIf" -> <<"i", "f">>
      [] token_type = "KwUnless" -> <<"u", "n", "l", "e", "s", "s">>
      [] token_type = "KwElse" -> <<"e", "l", "s", "e">>
      [] token_type = "KwEach" -> <<"e", "a", "c", "h">>
      [] token_type = "KwAs" -> <<"a", "s">>
      [] token_type = "Dot" -> <<".">>
      [] token_type = "Comma" -> <<",">>
      [] token_type = "Equal" -> <<"=">>
      [] token_type = "Question" -> <<"?">>

TAG_OPEN == <<"{", "[">>
TAG_OPEN_ESCAPE == <<"{", "[", "{", "]", "}">>

\* Lexer::new
lexer_new == [pos |-> 0, line |-> 1, col |-> 1, in_tag |-> FALSE]

looking_at(source, lx, pattern) ==
    /\ lx.pos + Len(pattern) <= Len(source)
    /\ SubSeq(source, lx.pos + 1, lx.pos + Len(pattern)) = pattern

looking_at_token(source, lx, token_type) == looking_at(source, lx, literal(token_type))

is_ident_continue_at(source, pos) ==
    /\ pos < Len(source)
    /\ is_ascii_alphanumeric(source[pos + 1]) \/ source[pos + 1] = "_"

advance_one(source, lx) ==
    IF lx.pos < Len(source)
    THEN IF source[lx.pos + 1] = "\n"
         THEN [lx EXCEPT !.line = @ + 1, !.col = 1, !.pos = @ + 1]
         ELSE [lx EXCEPT !.col = @ + 1, !.pos = @ + 1]
    ELSE lx

RECURSIVE advance_n(_, _, _)
advance_n(source, lx, n) ==
    IF n = 0 THEN lx ELSE advance_n(source, advance_one(source, lx), n - 1)

\* `ch as char` pushed on a String: a byte above 0x7F becomes the two bytes
\* of the UTF-8 encoding of the character U+0080..U+00FF with that number
\* the bytes 0x80..0xFF in order, each written with its two hexadecimal digits
HighBytes ==
    << "80", "81", "82", "83", "84", "85", "86", "87", "88", "89", "8A", "8B", "8C", "8D", "8E", "8F",
       "90", "91", "92", "93", "94", "95", "96", "97", "98", "99", "9A", "9B", "9C", "9D", "9E", "9F",
       "A0", "A1", "A2", "A3", "A4", "A5", "A6", "A7", "A8", "A9", "AA", "AB", "AC", "AD", "AE", "AF",
       "B0", "B1", "B2", "B3", "B4", "B5", "B6", "B7", "B8", "B9", "BA", "BB", "BC", "BD", "BE", "BF",
       "C0", "C1", "C2", "C3", "C4", "C5", "C6", "C7", "C8", "C9", "CA", "CB", "CC", "CD", "CE", "CF",
       "D0", "D1", "D2", "D3", "D4", "D5", "D6", "D7", "D8", "D9", "DA", "DB", "DC", "DD", "DE", "DF",
       "E0", "E1", "E2", "E3", "E4", "E5", "E6", "E7", "E8", "E9", "EA", "EB", "EC", "ED", "EE", "EF",
       "F0", "F1", "F2", "F3", "F4", "F5", "F6", "F7", "F8", "F9", "FA", "FB", "FC", "FD", "FE", "FF" >>

as_char(ch) ==
    IF \E i \in 1..Len(HighBytes) : HighBytes[i] = ch
    THEN LET i == CHOOSE i \in 1..Len(HighBytes) : HighBytes[i] = ch
         IN  IF i <= 64 THEN <<"C2", ch>> ELSE <<"C3", HighBytes[i - 64]>>
    ELSE <<ch>>

RECURSIVE tokenize_text_loop(_, _, _)
\* the loop of tokenize_text copying the escape sequence as it stands
tokenize_text_loop_escape_verbatim(source, lx, text) ==
    IF lx.pos >= Len(source) THEN [lx |-> lx, text |-> text]
    ELSE IF looking_at(source, lx, TAG_OPEN)
    THEN IF looking_at(source, lx, TAG_OPEN_ESCAPE)
         THEN tokenize_text_loop(source, advance_n(source, lx, Len(TAG_OPEN_ESCAPE)),
                                 text \o TAG_OPEN_ESCAPE)
         ELSE [lx |-> lx, text |-> text]
    ELSE tokenize_text_loop(source, advance_one(source, lx),
                            text \o as_char(source[lx.pos + 1]))

\* the while loop of tokenize_text: [lx, text]
tokenize_text_loop(source, lx, text) ==
    IF lx.pos >= Len(source) THEN [lx |-> lx, text |-> text]
    ELSE IF looking_at(source, lx, TAG_OPEN)
    THEN IF looking_at(source, lx, TAG_OPEN_ESCAPE)
         THEN tokenize_text_loop(source, advance_n(source, lx, Len(TAG_OPEN_ESCAPE)),
                                 text \o <<"{", "[">>)
         ELSE [lx |-> lx, text |-> text]
    ELSE tokenize_text_loop(source, advance_one(source, lx),
                            text \o as_char(source[lx.pos + 1]))

\* [lx, tokens] after tokenize_text
tokenize_text(source, lx, tokens) ==
    LET start_loc == Location(lx.line, lx.col, lx.pos)
        scanned == tokenize_text_loop(source, lx, <<>>)
        emitted == IF scanned.text # <<>>
                   THEN Append(tokens, Token("Text", scanned.text, start_loc))
                   ELSE tokens
    IN  IF looking_at(source, scanned.lx, TAG_OPEN)
        THEN [lx |-> [advance_n(source, scanned.lx, Len(TAG_OPEN)) EXCEPT !.in_tag = TRUE],
              tokens |-> emitted]
        ELSE [lx |-> scanned.lx, tokens |-> emitted]

\* [lx, tokens] after emit_fixed
emit_fixed(source, lx, tokens, token_type, loc) ==
    [lx |-> advance_n(source, lx, Len(literal(token_type))),
     tokens |-> Append(tokens, Token(token_type, literal(token_type), loc))]

\* [lx, tokens] after tokenize_bang
tokenize_bang(source, lx, tokens, loc) ==
    IF /\ looking_at(source, lx, literal("BangUnsecure"))
       /\ ~is_ident_continue_at(source, lx.pos + Len(literal("BangUnsecure")))
    THEN emit_fixed(source, lx, tokens, "BangUnsecure", loc)
    ELSE IF /\ looking_at(source, lx, literal("BangInclude"))
            /\ ~is_ident_continue_at(source, lx.pos + Len(literal("BangInclude")))
    THEN emit_fixed(source, lx, tokens, "BangInclude", loc)
    ELSE emit_fixed(source, lx, tokens, "Exclamation", loc)

is_tag_whitespace(ch) == ch \in {" ", "\t", "\r", "\n"}

RECURSIVE skip_tag_whitespace(_, _)
skip_tag_whitespace(source, lx) ==
    IF lx.pos < Len(source) /\ is_tag_whitespace(source[lx.pos + 1])
    THEN skip_tag_whitespace(source, advance_one(source, lx))
    ELSE lx

RECURSIVE skip_ident(_, _)
skip_ident(source, lx) ==
    IF lx.pos < Len(source) /\ is_ident_continue_at(source, lx.pos)
    THEN skip_ident(source, advance_one(source, lx))
    ELSE lx

keyword_type(ident) ==
    CASE ident = literal("KwIf") -> "KwIf"
      [] ident = literal("KwUnless") -> "KwUnless"
      [] ident = literal("KwElse") -> "KwElse"
      [] ident = literal("KwEach") -> "KwEach"
      [] ident = literal("KwAs") -> "KwAs"
      [] OTHER -> "Ident"

\* Ok([lx, tokens]) after tokenize_tag, or the SyntaxError
tokenize_tag(source, lx, tokens) ==
    LET loc == Location(lx.line, lx.col, lx.pos)
        ch == source[lx.pos + 1]
    IN  IF lx.pos >= Len(source) THEN Ok([lx |-> lx, tokens |-> tokens])
        ELSE CASE ch = "]" /\ looking_at_token(source, lx, "Close") ->
                    LET e == emit_fixed(source, lx, tokens, "Close", loc)
                    IN  Ok([lx |-> [e.lx EXCEPT !.in_tag = FALSE], tokens |-> e.tokens])
               [] ch = "%" -> Ok(emit_fixed(source, lx, tokens, "Percent", loc))
               [] ch = "-" -> Ok(emit_fixed(source, lx, tokens, "Dash", loc))
               [] ch = "#" -> Ok(emit_fixed(source, lx, tokens, "Hash", loc))
               [] ch = "/" -> Ok(emit_fixed(source, lx, tokens, "Slash", loc))
               [] ch = "!" -> Ok(tokenize_bang(source, lx, tokens, loc))
               [] ch = "." -> Ok(emit_fixed(source, lx, tokens, "Dot", loc))
               [] ch = "," -> Ok(emit_fixed(source, lx, tokens, "Comma", loc))
               [] ch = "=" -> Ok(emit_fixed(source, lx, tokens, "Equal", loc))
               [] ch = "?" -> Ok(emit_fixed(source, lx, tokens, "Question", loc))
               [] is_tag_whitespace(ch) ->
                    LET end == skip_tag_whitespace(source, lx)
                    IN  Ok([lx |-> end,
                            tokens |-> Append(tokens,
                                Token("Whitespace", SubSeq(source, lx.pos + 1, end.pos), loc))])
               [] is_ascii_alphabetic(ch) ->
                    LET end == skip_ident(source, lx)
                        ident == SubSeq(source, lx.pos + 1, end.pos)
                    IN  Ok([lx |-> end,
                            tokens |-> Append(tokens, Token(keyword_type(ident), ident, loc))])
               [] OTHER -> Err("SyntaxError", loc)

RECURSIVE tokenize_loop(_, _, _)
\* the while loop of Lexer::tokenize
tokenize_loop(source, lx, tokens) ==
    IF lx.pos >= Len(source)
    THEN Ok(Append(tokens, Token("Eof", <<>>, Location(lx.line, lx.col, lx.pos))))
    ELSE IF lx.in_tag
    THEN LET step == tokenize_tag(source, lx, tokens)
         IN  IF ~step.ok THEN step
             ELSE tokenize_loop(source, step.val.lx, step.val.tokens)
    ELSE LET step == tokenize_text(source, lx, tokens)
         IN  tokenize_loop(source, step.lx, step.tokens)

\* lexer::tokenize: Ok(tokens) or the SyntaxError
tokenize(source) == tokenize_loop(source, lexer_new, <<>>)

(***************************************************************************)
(* natsuzora_ast::token_processor                                          *)
(***************************************************************************)
\* TokenProcessor::new, without the tokens
processor_new ==
    [result |-> <<>>, strip_next_text |-> FALSE, in_comment |-> FALSE,
     comment_start_line |-> 0, comment_start_col |-> 0,
     in_tag |-> FALSE, tag_token_count |-> 0]

start_tag_if_needed(tp) ==
    IF ~tp.in_tag THEN [tp EXCEPT !.in_tag = TRUE, !.tag_token_count = 0] ELSE tp

left_trim_dash(tp) == tp.tag_token_count = 0

\* next_token is None or Some(token)
right_trim_dash(next_token) == next_token.some /\ next_token.val.token_type = "Close"

\* Iterator::rposition: the index of the last Text token of result, or 0
LastTextIndex(result) ==
    LET hits == {i \in 1..Len(result) : result[i].token_type = "Text"}
    IN  IF hits = {} THEN 0 ELSE CHOOSE i \in hits : \A j \in hits : j <= i

\* the position after the last "\n" or "\r" of value, or 0
line_start_of(value) ==
    LET breaks == {i \in 1..Len(value) : value[i] \in {"\n", "\r"}}
    IN  IF breaks = {} THEN 0 ELSE CHOOSE i \in breaks : \A j \in breaks : j <= i

strip_trailing_from_last_text_if_blank_line(tp) ==
    LET idx == LastTextIndex(tp.result)
        value == tp.result[idx].value
        line_start == line_start_of(value)
    IN  IF tp.result = <<>> \/ idx = 0 THEN tp
        ELSE IF \E i \in (line_start + 1)..Len(value) : value[i] \notin {" ", "\t"}
        THEN tp
        ELSE [tp EXCEPT !.result[idx] =
                 Token("Text", SubSeq(value, 1, line_start), tp.result[idx].location)]

handle_dash(tp, next_token) ==
    LET left == IF left_trim_dash(tp)
                THEN strip_trailing_from_last_text_if_blank_line(tp)
                ELSE tp
    IN  IF right_trim_dash(next_token) THEN [left EXCEPT !.strip_next_text = TRUE]
        ELSE left

handle_close(tp, token) == [tp EXCEPT !.result = Append(@, token)]

RECURSIVE SkipSpacesTabs(_, _)
\* the position, counted from 0, after the spaces and tabs that begin at pos
SkipSpacesTabs(text, pos) ==
    IF pos < Len(text) /\ text[pos + 1] \in {" ", "\t"}
    THEN SkipSpacesTabs(text, pos + 1)
    ELSE pos

\* strip_leading_whitespace_if_blank_line taking every line terminator that follows
strip_leading_whitespace_and_all_newlines(text) ==
    LET pos == SkipSpacesTabs(text, 0)
        rest == {i \in pos..Len(text) :
                    \A j \in (pos + 1)..i : text[j] \in {"\n", "\r"}}
        end == CHOOSE i \in rest : \A j \in rest : j <= i
    IN  IF pos >= Len(text) THEN <<>>
        ELSE IF text[pos + 1] \in {"\n", "\r"} THEN SubSeq(text, end + 1, Len(text))
        ELSE text

strip_leading_whitespace_if_blank_line(text) ==
    LET pos == SkipSpacesTabs(text, 0)
    IN  IF pos >= Len(text) THEN <<>>
        ELSE IF text[pos + 1] = "\n" THEN SubSeq(text, pos + 2, Len(text))
        ELSE IF text[pos + 1] = "\r"
        THEN IF pos + 1 < Len(text) /\ text[pos + 2] = "\n"
             THEN SubSeq(text, pos + 3, Len(text))
             ELSE SubSeq(text, pos + 2, Len(text))
        ELSE text

\* handle_text that leaves strip_next_text set
handle_text_keeping_flag(tp, token) ==
    LET text_value == IF tp.strip_next_text
                      THEN strip_leading_whitespace_if_blank_line(token.value)
                      ELSE token.value
    IN  IF text_value = <<>> THEN tp
        ELSE [tp EXCEPT !.result = Append(@, Token("Text", text_value, token.location))]

handle_text(tp, token) ==
    LET text_value == IF tp.strip_next_text
                      THEN strip_leading_whitespace_if_blank_line(token.value)
                      ELSE token.value
        cleared == [tp EXCEPT !.strip_next_text = FALSE]
    IN  IF text_value = <<>> THEN cleared
        ELSE [cleared EXCEPT !.result = Append(@, Token("Text", text_value, token.location))]

\* start_comment that keeps the place of the first comment of the stream
start_comment_keeping_first(tp, token) ==
    IF tp.comment_start_line # 0 THEN [tp EXCEPT !.in_comment = TRUE]
    ELSE [tp EXCEPT !.in_comment = TRUE,
                    !.comment_start_line = token.location.line,
                    !.comment_start_col = token.location.column]

start_comment(tp, token) ==
    [tp EXCEPT !.in_comment = TRUE,
               !.comment_start_line = token.location.line,
               !.comment_start_col = token.location.column]

\* handle_comment_content passing the tokens of the comment on
handle_comment_content_passing(tp, token, next_token) ==
    LET flagged == IF token.token_type = "Dash" /\ right_trim_dash(next_token)
                   THEN [tp EXCEPT !.strip_next_text = TRUE]
                   ELSE tp
    IN  IF token.token_type = "Close"
        THEN [flagged EXCEPT !.in_comment = FALSE, !.in_tag = FALSE, !.tag_token_count = 0]
        ELSE [flagged EXCEPT !.result = Append(@, token)]

\* handle_comment_content treating every comment as ending with a trim marker
handle_comment_content_always_trimming(tp, token, next_token) ==
    IF token.token_type = "Close"
    THEN [tp EXCEPT !.strip_next_text = TRUE, !.in_comment = FALSE,
                    !.in_tag = FALSE, !.tag_token_count = 0]
    ELSE tp

handle_comment_content(tp, token, next_token) ==
    LET flagged == IF token.token_type = "Dash" /\ right_trim_dash(next_token)
                   THEN [tp EXCEPT !.strip_next_text = TRUE]
                   ELSE tp
    IN  IF token.token_type = "Close"
        THEN [flagged EXCEPT !.in_comment = FALSE, !.in_tag = FALSE, !.tag_token_count = 0]
        ELSE flagged

\* one turn of the while loop of TokenProcessor::process, for tokens[idx + 1]
process_token(tp, token, next_token) ==
    IF tp.in_comment THEN handle_comment_content(tp, token, next_token)
    ELSE CASE token.token_type = "Percent" ->
                [start_comment(start_tag_if_needed(tp), token)
                    EXCEPT !.tag_token_count = @ + 1]
           [] token.token_type = "Dash" ->
                [handle_dash(start_tag_if_needed(tp), next_token)
                    EXCEPT !.tag_token_count = @ + 1]
           [] token.token_type = "Close" ->
                [handle_close(tp, token) EXCEPT !.in_tag = FALSE, !.tag_token_count = 0]
           [] token.token_type = "Text" ->
                [handle_text(tp, token) EXCEPT !.in_tag = FALSE, !.tag_token_count = 0]
           [] OTHER ->
                [start_tag_if_needed(tp) EXCEPT !.result = Append(@, token),
                                                !.tag_token_count = @ + 1]

RECURSIVE process_loop(_, _, _)
process_loop(tokens, idx, tp) ==
    IF idx < Len(tokens)
    THEN process_loop(tokens, idx + 1,
                      process_token(tp, tokens[idx + 1],
                                    IF idx + 1 < Len(tokens) THEN Some(tokens[idx + 2])
                                    ELSE None))
    ELSE tp

\* token_processor::process: Ok(tokens) or the UnclosedComment error
process(tokens) ==
    LET tp == process_loop(tokens, 0, processor_new)
    IN  IF tp.in_comment
        THEN Err("UnclosedComment",
                 [line |-> tp.comment_start_line, column |-> tp.comment_start_col])
        ELSE Ok(tp.result)

(***************************************************************************)
(* natsuzora_ast: identifier validation                                    *)
(***************************************************************************)
\* the errors parser.rs builds: ParseError::UnexpectedToken {message, line,
\* column}, ReservedWord {word, ..} and InvalidIdentifier {name, ..}; the
\* message, word or name is detail.  The enum that declares UnexpectedToken
\* and the UnclosedComment of token_processor.rs is not in lib.rs (its
\* ParseError is that of the tree-sitter front end); the two variants are taken
\* from the places that build them and from the error table of the
\* specification.
ParseError(kind, detail, line, column) ==
    Err(kind, [detail |-> detail, line |-> line, column |-> column])

RESERVED_WORDS ==
    <<<<"i", "f">>, <<"u", "n", "l", "e", "s", "s">>, <<"e", "l", "s", "e">>,
      <<"e", "a", "c", "h">>, <<"a", "s">>, <<"u", "n", "s", "e", "c", "u", "r", "e">>,
      <<"t", "r", "u", "e">>, <<"f", "a", "l", "s", "e">>, <<"n", "u", "l", "l">>,
      <<"i", "n", "c", "l", "u", "d", "e">>, <<"i", "n">>, <<"o", "f">>>>

is_reserved_word(word) == \E i \in 1..Len(RESERVED_WORDS) : RESERVED_WORDS[i] = word

\* validate_identifier without the check for reserved words
validate_identifier_allowing_reserved(name, location) ==
    IF StartsWith(name, <<"_">>)
    THEN ParseError("InvalidIdentifier", name, location.line, location.column)
    ELSE Ok(<<>>)

validate_identifier(name, location) ==
    IF is_reserved_word(name)
    THEN ParseError("ReservedWord", name, location.line, location.column)
    ELSE IF StartsWith(name, <<"_">>)
    THEN ParseError("InvalidIdentifier", name, location.line, location.column)
    ELSE Ok(<<>>)

(***************************************************************************)
(* natsuzora_ast::parser. The parser is its token vector and a position;   *)
(* every parse function is given both and returns Parsed(value, pos) with  *)
(* the position it has advanced to, or the ParseError.                     *)
(***************************************************************************)
Parsed(value, pos) == Ok([val |-> value, pos |-> pos])

current_token(tokens, pos) == IF pos < Len(tokens) THEN Some(tokens[pos + 1]) ELSE None

current_type(tokens, pos) ==
    IF current_token(tokens, pos).some THEN current_token(tokens, pos).val.token_type
    ELSE "Eof"

\* Location::default() when there is no token
current_location(tokens, pos) ==
    IF current_token(tokens, pos).some THEN current_token(tokens, pos).val.location
    ELSE Location(0, 0, 0)

advance(pos) == pos + 1

consume(tokens, pos, expected) ==
    LET token == current_token(tokens, pos)
    IN  IF token.some /\ token.val.token_type = expected
        THEN Parsed(token.val, advance(pos))
        ELSE IF token.some
        THEN ParseError("UnexpectedToken",
                        <<"Expected ", expected, ", got ", token.val.token_type>>,
                        token.val.location.line, token.val.location.column)
        ELSE ParseError("UnexpectedToken",
                        <<"Expected ", expected, ", got end of input">>, 0, 0)

RECURSIVE skip_whitespace(_, _)
skip_whitespace(tokens, pos) ==
    IF current_type(tokens, pos) = "Whitespace"
    THEN skip_whitespace(tokens, advance(pos))
    ELSE pos

consume_required_whitespace(tokens, pos) ==
    IF current_type(tokens, pos) # "Whitespace"
    THEN ParseError("UnexpectedToken", <<"Expected whitespace">>,
                    current_location(tokens, pos).line,
                    current_location(tokens, pos).column)
    ELSE Parsed(<<>>, skip_whitespace(tokens, pos))

\* message is None or Some(text)
unexpected_token(tokens, pos, message) ==
    LET loc == current_location(tokens, pos)
        token == current_token(tokens, pos)
        msg == CASE message.some /\ token.some ->
                        <<message.val, ": ", token.val.token_type>>
                 [] message.some /\ ~token.some -> <<message.val>>
                 [] ~message.some /\ token.some ->
                        <<"Unexpected token: ", token.val.token_type>>
                 [] OTHER -> <<"Unexpected end of input">>
    IN  ParseError("UnexpectedToken", msg, loc.line, loc.column)

is_keyword_token(tokens, pos) ==
    current_type(tokens, pos) \in {"KwIf", "KwUnless", "KwElse", "KwEach", "KwAs"}

is_else_open(tokens, pos) ==
    LET p == skip_whitespace(tokens, pos + 1)
    IN  IF current_type(tokens, pos) # "Hash" THEN FALSE
        ELSE p < Len(tokens) /\ tokens[p + 1].token_type = "KwElse"

\* keyword is None or Some(token type)
is_block_close(tokens, pos, keyword) ==
    LET p == skip_whitespace(tokens, pos + 1)
    IN  IF current_type(tokens, pos) # "Slash" THEN FALSE
        ELSE IF ~keyword.some THEN TRUE
        ELSE p < Len(tokens) /\ tokens[p + 1].token_type = keyword.val

\* the ? operator: an Err is returned as it is, the value of an Ok is handed
\* to the rest of the function
AndThen(result, Rest(_)) == Bind(result, LAMBDA r : IF r.ok THEN Rest(r.val) ELSE r)

consume_else(tokens, pos) ==
    AndThen(consume(tokens, pos, "Hash"), LAMBDA hash :
    AndThen(consume(tokens, skip_whitespace(tokens, hash.pos), "KwElse"), LAMBDA kw :
    AndThen(consume(tokens, skip_whitespace(tokens, kw.pos), "Close"), LAMBDA close :
    Parsed(<<>>, close.pos))))

consume_block_close(tokens, pos, keyword) ==
    AndThen(consume(tokens, pos, "Slash"), LAMBDA slash :
    AndThen(consume(tokens, skip_whitespace(tokens, slash.pos), keyword), LAMBDA kw :
    AndThen(consume(tokens, skip_whitespace(tokens, kw.pos), "Close"), LAMBDA close :
    Parsed(<<>>, close.pos))))

parse_identifier_with_validation(tokens, pos) ==
    LET loc == current_location(tokens, pos)
    IN  IF is_keyword_token(tokens, pos)
        THEN ParseError("ReservedWord", current_token(tokens, pos).val.value,
                        loc.line, loc.column)
        ELSE AndThen(consume(tokens, pos, "Ident"), LAMBDA token :
             AndThen(validate_identifier(token.val.value, loc), LAMBDA valid :
             Parsed(token.val.value, token.pos)))

RECURSIVE parse_path_segments_loop(_, _, _)
\* the while loop of parse_path_segments
parse_path_segments_loop(tokens, pos, segments) ==
    IF current_type(tokens, pos) # "Dot" THEN Parsed(segments, pos)
    ELSE AndThen(consume(tokens, pos, "Dot"), LAMBDA dot :
         AndThen(parse_identifier_with_validation(tokens, dot.pos), LAMBDA ident :
         parse_path_segments_loop(tokens, ident.pos, Append(segments, ident.val))))

parse_path_segments(tokens, pos) ==
    AndThen(parse_identifier_with_validation(tokens, pos), LAMBDA first :
    parse_path_segments_loop(tokens, first.pos, <<first.val>>))

\* Path::new(segments, first_loc): the model's path is its segments
parse_path(tokens, pos) == parse_path_segments(tokens, pos)

\* the modifier after the segments and the position after it
parse_modifier(tokens, pos) ==
    CASE current_type(tokens, pos) = "Question" -> Parsed("Nullable", advance(pos))
      [] current_type(tokens, pos) = "Exclamation" -> Parsed("Required", advance(pos))
      [] OTHER -> Parsed("None", pos)

parse_path_with_modifier(tokens, pos) ==
    AndThen(parse_path_segments(tokens, pos), LAMBDA segments :
    AndThen(parse_modifier(tokens, segments.pos), LAMBDA modifier :
    Parsed(Located(VariableNode(segments.val, modifier.val, NoWs),
                   current_location(tokens, pos)),
           modifier.pos)))

parse_variable_node(tokens, pos) ==
    AndThen(parse_path_with_modifier(tokens, pos), LAMBDA path :
    AndThen(consume(tokens, skip_whitespace(tokens, path.pos), "Close"), LAMBDA close :
    Parsed(path.val, close.pos)))

parse_text(tokens, pos) ==
    AndThen(consume(tokens, pos, "Text"), LAMBDA token :
    Parsed(Located(TextNode(token.val.value), token.val.location), token.pos))

peek_after_whitespace_value(tokens, pos) ==
    LET p == skip_whitespace(tokens, pos)
    IN  IF p < Len(tokens) THEN tokens[p + 1].value ELSE <<>>

check_no_whitespace_before_special(tokens, pos) ==
    LET ws_loc == current_location(tokens, pos)
        special == current_type(tokens, skip_whitespace(tokens, pos))
                       \in {"Hash", "Slash", "BangUnsecure", "BangInclude"}
    IN  IF special
        THEN ParseError("UnexpectedToken",
                        <<"Whitespace not allowed before '",
                          peek_after_whitespace_value(tokens, pos),
                          "' after tag open">>,
                        ws_loc.line, ws_loc.column)
        ELSE Ok(<<>>)

parse_unsecure_output(tokens, pos) ==
    AndThen(consume(tokens, pos, "BangUnsecure"), LAMBDA token :
    AndThen(consume_required_whitespace(tokens, token.pos), LAMBDA ws :
    AndThen(parse_path(tokens, ws.pos), LAMBDA path :
    AndThen(consume(tokens, skip_whitespace(tokens, path.pos), "Close"), LAMBDA close :
    Parsed(Located(UnsecureNode(path.val, NoWs), token.val.location), close.pos)))))

parse_include_segment(tokens, pos) ==
    AndThen(consume(tokens, pos, "Slash"), LAMBDA slash :
    IF current_type(tokens, slash.pos) # "Ident"
    THEN ParseError("UnexpectedToken", <<"Expected identifier after /">>,
                    current_location(tokens, slash.pos).line,
                    current_location(tokens, slash.pos).column)
    ELSE AndThen(consume(tokens, slash.pos, "Ident"), LAMBDA ident_token :
         Parsed(<<"/">> \o ident_token.val.value, ident_token.pos)))

RECURSIVE parse_include_name_loop(_, _, _)
\* the while loop of parse_include_name
parse_include_name_loop(tokens, pos, path) ==
    IF current_type(tokens, pos) # "Slash" THEN Parsed(path, pos)
    ELSE AndThen(parse_include_segment(tokens, pos), LAMBDA segment :
         parse_include_name_loop(tokens, segment.pos, path \o segment.val))

\* the check of the segments of an include name: none starts with an underscore
check_include_name(path, first_loc) ==
    LET segs == Segments(path.val)
        bad == {i \in 1..Len(segs) : StartsWith(segs[i], <<"_">>)}
    IN  IF bad # {}
        THEN ParseError("InvalidIdentifier",
                        segs[CHOOSE i \in bad : \A j \in bad : i <= j],
                        first_loc.line, first_loc.column)
        ELSE Ok(path)

parse_include_name(tokens, pos) ==
    IF current_type(tokens, pos) # "Slash"
    THEN ParseError("UnexpectedToken", <<"Include name must start with '/'">>,
                    current_location(tokens, pos).line,
                    current_location(tokens, pos).column)
    ELSE AndThen(parse_include_segment(tokens, pos), LAMBDA first :
         AndThen(parse_include_name_loop(tokens, first.pos, first.val), LAMBDA path :
         check_include_name(path, current_location(tokens, pos))))

parse_include_arg(tokens, pos) ==
    AndThen(consume(tokens, pos, "Ident"), LAMBDA key_token :
    AndThen(validate_identifier(key_token.val.value, key_token.val.location), LAMBDA valid :
    AndThen(consume(tokens, skip_whitespace(tokens, key_token.pos), "Equal"), LAMBDA equal :
    AndThen(parse_path(tokens, skip_whitespace(tokens, equal.pos)), LAMBDA value :
    Parsed(Located(IncludeArg(key_token.val.value, value.val), key_token.val.location),
           value.pos)))))

\* seen_keys.contains(&arg.name): seen_keys holds the names of args
seen_keys_contains(args, name) == \E i \in 1..Len(args) : args[i].name = name

RECURSIVE parse_include_args(_, _, _)
\* parse_include_args; args is what the while loop has collected
parse_include_args(tokens, pos, args) ==
    IF current_type(tokens, pos) # "Whitespace" THEN Parsed(args, pos)
    ELSE IF current_type(tokens, skip_whitespace(tokens, pos)) # "Ident"
    THEN Parsed(args, skip_whitespace(tokens, pos))
    ELSE AndThen(parse_include_arg(tokens, skip_whitespace(tokens, pos)), LAMBDA arg :
         IF seen_keys_contains(args, arg.val.name)
         THEN ParseError("UnexpectedToken",
                         <<"Duplicate include argument: ", arg.val.name>>,
                         arg.val.location.line, arg.val.location.column)
         ELSE parse_include_args(tokens, arg.pos, Append(args, arg.val)))

parse_include(tokens, pos) ==
    AndThen(consume(tokens, pos, "BangInclude"), LAMBDA token :
    AndThen(consume_required_whitespace(tokens, token.pos), LAMBDA ws :
    AndThen(parse_include_name(tokens, ws.pos), LAMBDA name :
    AndThen(parse_include_args(tokens, name.pos, <<>>), LAMBDA args :
    AndThen(consume(tokens, skip_whitespace(tokens, args.pos), "Close"), LAMBDA close :
    Parsed(Located(IncludeNode(name.val, args.val, NoWs), token.val.location),
           close.pos))))))

RECURSIVE parse_node(_, _)
RECURSIVE parse_nodes(_, _, _)
RECURSIVE parse_if_body(_, _, _)
RECURSIVE parse_unless_body(_, _, _)
RECURSIVE parse_each_body(_, _, _)

\* parse_nodes; nodes is what the while loop has collected
parse_nodes(tokens, pos, nodes) ==
    IF current_type(tokens, pos) = "Eof" \/ is_block_close(tokens, pos, None)
    THEN Parsed(nodes, pos)
    ELSE AndThen(parse_node(tokens, pos), LAMBDA node :
         parse_nodes(tokens, node.pos, Append(nodes, node.val)))

\* parse_if_body; nodes is what the while loop has collected
parse_if_body(tokens, pos, nodes) ==
    IF is_block_close(tokens, pos, Some("KwIf")) \/ is_else_open(tokens, pos)
    THEN Parsed(nodes, pos)
    ELSE AndThen(parse_node(tokens, pos), LAMBDA node :
         parse_if_body(tokens, node.pos, Append(nodes, node.val)))

\* parse_unless_body; nodes is what the while loop has collected
parse_unless_body(tokens, pos, nodes) ==
    IF is_block_close(tokens, pos, Some("KwUnless")) THEN Parsed(nodes, pos)
    ELSE AndThen(parse_node(tokens, pos), LAMBDA node :
         parse_unless_body(tokens, node.pos, Append(nodes, node.val)))

\* parse_each_body; nodes is what the while loop has collected
parse_each_body(tokens, pos, nodes) ==
    IF is_block_close(tokens, pos, Some("KwEach")) THEN Parsed(nodes, pos)
    ELSE AndThen(parse_node(tokens, pos), LAMBDA node :
         parse_each_body(tokens, node.pos, Append(nodes, node.val)))

\* the else branch of parse_if_block: None without #else, Some(nodes) with it
parse_else_branch(tokens, pos) ==
    IF ~is_else_open(tokens, pos) THEN Parsed(None, pos)
    ELSE AndThen(consume_else(tokens, pos), LAMBDA else_open :
         AndThen(parse_if_body(tokens, else_open.pos, <<>>), LAMBDA else_nodes :
         Parsed(Some(else_nodes.val), else_nodes.pos)))

parse_if_block(tokens, pos) ==
    AndThen(consume(tokens, pos, "KwIf"), LAMBDA kw_token :
    AndThen(consume_required_whitespace(tokens, kw_token.pos), LAMBDA ws :
    AndThen(parse_path(tokens, ws.pos), LAMBDA condition :
    AndThen(consume(tokens, skip_whitespace(tokens, condition.pos), "Close"), LAMBDA close :
    AndThen(parse_if_body(tokens, close.pos, <<>>), LAMBDA then_nodes :
    AndThen(parse_else_branch(tokens, then_nodes.pos), LAMBDA else_nodes :
    AndThen(consume_block_close(tokens, else_nodes.pos, "KwIf"), LAMBDA block_close :
    Parsed(Located(IfBlock(condition.val, then_nodes.val, else_nodes.val, NoWs,
                           IF else_nodes.val.some THEN Some(NoWs) ELSE None, NoWs),
                   kw_token.val.location),
           block_close.pos))))))))

parse_unless_block(tokens, pos) ==
    AndThen(consume(tokens, pos, "KwUnless"), LAMBDA kw_token :
    AndThen(consume_required_whitespace(tokens, kw_token.pos), LAMBDA ws :
    AndThen(parse_path(tokens, ws.pos), LAMBDA condition :
    AndThen(consume(tokens, skip_whitespace(tokens, condition.pos), "Close"), LAMBDA close :
    AndThen(parse_unless_body(tokens, close.pos, <<>>), LAMBDA body :
    AndThen(consume_block_close(tokens, body.pos, "KwUnless"), LAMBDA block_close :
    Parsed(Located(UnlessBlock(condition.val, body.val, NoWs, NoWs),
                   kw_token.val.location),
           block_close.pos)))))))

parse_each_block(tokens, pos) ==
    AndThen(consume(tokens, pos, "KwEach"), LAMBDA kw_token :
    AndThen(consume_required_whitespace(tokens, kw_token.pos), LAMBDA ws1 :
    AndThen(parse_path(tokens, ws1.pos), LAMBDA collection :
    AndThen(consume_required_whitespace(tokens, collection.pos), LAMBDA ws2 :
    AndThen(consume(tokens, ws2.pos, "KwAs"), LAMBDA kw_as :
    AndThen(consume_required_whitespace(tokens, kw_as.pos), LAMBDA ws3 :
    AndThen(parse_identifier_with_validation(tokens, ws3.pos), LAMBDA item_name :
    AndThen(consume(tokens, skip_whitespace(tokens, item_name.pos), "Close"), LAMBDA close :
    AndThen(parse_each_body(tokens, close.pos, <<>>), LAMBDA body :
    AndThen(consume_block_close(tokens, body.pos, "KwEach"), LAMBDA block_close :
    Parsed(Located(EachBlock(collection.val, item_name.val, body.val, NoWs, NoWs),
                   kw_token.val.location),
           block_close.pos)))))))))))

\* the match of parse_block_open on the token after the #
parse_block_keyword(tokens, at) ==
    CASE current_type(tokens, at) = "KwIf" -> parse_if_block(tokens, at)
      [] current_type(tokens, at) = "KwUnless" -> parse_unless_block(tokens, at)
      [] current_type(tokens, at) = "KwEach" -> parse_each_block(tokens, at)
      [] current_type(tokens, at) = "KwElse" ->
            unexpected_token(tokens, at, Some("Unexpected 'else' without 'if'"))
      [] OTHER -> unexpected_token(tokens, at, None)

parse_block_open(tokens, pos) ==
    AndThen(consume(tokens, pos, "Hash"), LAMBDA hash :
    parse_block_keyword(tokens, skip_whitespace(tokens, hash.pos)))

\* the match of parse_tag_content on the token after the whitespace
parse_tag_kind(tokens, at) ==
    CASE current_type(tokens, at) = "Hash" -> parse_block_open(tokens, at)
      [] current_type(tokens, at) = "Slash" ->
            unexpected_token(tokens, at, Some("Unexpected block close"))
      [] current_type(tokens, at) = "BangUnsecure" -> parse_unsecure_output(tokens, at)
      [] current_type(tokens, at) = "BangInclude" -> parse_include(tokens, at)
      [] OTHER -> parse_variable_node(tokens, at)

parse_tag_content(tokens, pos) ==
    AndThen(IF current_type(tokens, pos) = "Whitespace"
            THEN check_no_whitespace_before_special(tokens, pos)
            ELSE Ok(<<>>), LAMBDA check :
    parse_tag_kind(tokens, skip_whitespace(tokens, pos)))

parse_node(tokens, pos) ==
    IF current_type(tokens, pos) = "Text" THEN parse_text(tokens, pos)
    ELSE IF current_type(tokens, pos)
                \in {"Hash", "Slash", "BangUnsecure", "BangInclude", "Ident",
                     "KwIf", "KwUnless", "KwElse", "KwEach", "KwAs", "Whitespace",
                     "Question", "Exclamation", "Dot", "Equal", "Comma"}
    THEN parse_tag_content(tokens, pos)
    ELSE unexpected_token(tokens, pos, None)

\* Parser::parse: Ok(nodes of the Template) or the ParseError
parse(tokens) ==
    AndThen(parse_nodes(tokens, 0, <<>>), LAMBDA nodes : Ok(nodes.val))

(***************************************************************************)
(* natsuzora_ast::parse (lib.rs), the front end that is compiled into the  *)
(* crate: tree_sitter parses the source into a tree of tree_sitter::Node,  *)
(* and the functions below turn that tree into the Template.  lexer.rs,    *)
(* token_processor.rs and parser.rs above are not declared as modules in   *)
(* lib.rs; where lib.rs uses a name that parser.rs also uses, the function *)
(* of lib.rs is written ast_<name> here.                                   *)
(*                                                                         *)
(* A tree_sitter::Node is the record of what lib.rs reads of it: kind(),   *)
(* is_named(), is_error(), is_missing(), start_byte(), end_byte(),         *)
(* start_position() (row and column from 0) and its children.  A Tree is   *)
(* the source it was parsed from and its root node.                        *)
(***************************************************************************)
Node(kind, start_byte, end_byte, row, column, children) ==
    [kind |-> kind, is_named |-> TRUE, is_error |-> FALSE, is_missing |-> FALSE,
     start_byte |-> start_byte, end_byte |-> end_byte,
     start_position |-> [row |-> row, column |-> column], children |-> children]

\* an anonymous node: a literal of the grammar such as "." or "#if"
Anonymous(kind, start_byte, end_byte, row, column) ==
    [Node(kind, start_byte, end_byte, row, column, <<>>) EXCEPT !.is_named = FALSE]

\* an ERROR node, which wraps what the parser could not place
ErrorNode(start_byte, end_byte, row, column, children) ==
    [Node("ERROR", start_byte, end_byte, row, column, children) EXCEPT !.is_error = TRUE]

\* a node the parser inserted to recover: it is empty
MissingNode(kind, at_byte, row, column) ==
    [Node(kind, at_byte, at_byte, row, column, <<>>) EXCEPT !.is_missing = TRUE]

Tree(text, root_node) == [source |-> text, root_node |-> root_node]

\* Node::utf8_text(source.as_bytes())
utf8_text(node, text) == SubSeq(text, node.start_byte + 1, node.end_byte)

\* Node::named_children
named_children(node) == SelectSeq(node.children, LAMBDA child : child.is_named)

\* Node::named_child(index), the index from 0
named_child(node, index) ==
    IF index < Len(named_children(node)) THEN Some(named_children(node)[index + 1])
    ELSE None

RECURSIVE has_error(_)
\* Node::has_error: the node or one below it is an error or is missing
has_error(node) ==
    \/ node.is_error
    \/ node.is_missing
    \/ \E i \in 1..Len(node.children) : has_error(node.children[i])

\* Location::from_node
from_node(node) ==
    Location(node.start_position.row + 1, node.start_position.column + 1, node.start_byte)

\* ParseError::UnexpectedNode {kind, line, column} at a location
UnexpectedNode(kind, location) ==
    ParseError("UnexpectedNode", kind, location.line, location.column)

child_by_kind(node, kind) ==
    LET found == {i \in 1..Len(node.children) : node.children[i].kind = kind}
    IN  IF found = {} THEN None
        ELSE Some(node.children[CHOOSE i \in found : \A j \in found : i <= j])

RECURSIVE parse_whitespace_control_loop(_, _, _, _)
\* the loop of parse_whitespace_control over children[i..]
parse_whitespace_control_loop(children, text, i, ws) ==
    IF i > Len(children) THEN Ok(ws)
    ELSE parse_whitespace_control_loop(children, text, i + 1,
            IF children[i].kind = "tag_open"
            THEN [ws EXCEPT !.trim_before = utf8_text(children[i], text) = <<"{", "[", "-">>]
            ELSE IF children[i].kind = "tag_close"
            THEN [ws EXCEPT !.trim_after = utf8_text(children[i], text) = <<"-", "]", "}">>]
            ELSE ws)

parse_whitespace_control(node, text) ==
    parse_whitespace_control_loop(node.children, text, 1, NoWs)

ast_parse_modifier(node, text) ==
    IF utf8_text(node, text) = <<"?">> THEN Ok("Nullable")
    ELSE IF utf8_text(node, text) = <<"!">> THEN Ok("Required")
    ELSE UnexpectedNode(<<"modifier(", utf8_text(node, text), ")">>, from_node(node))

RECURSIVE ast_parse_path_loop(_, _, _, _)
\* the loop of parse_path over children[i..]
ast_parse_path_loop(children, text, i, segments) ==
    IF i > Len(children) THEN Ok(segments)
    ELSE IF children[i].kind = "identifier"
    THEN AndThen(validate_identifier(utf8_text(children[i], text), from_node(children[i])),
                 LAMBDA valid :
         ast_parse_path_loop(children, text, i + 1,
                             Append(segments, utf8_text(children[i], text))))
    ELSE ast_parse_path_loop(children, text, i + 1, segments)

\* parse_path of lib.rs.  A Path is held as its segments; the location that
\* Path::new is given is read by nothing.
ast_parse_path(node, text) ==
    AndThen(ast_parse_path_loop(node.children, text, 1, <<>>), LAMBDA segments :
    IF segments = <<>> THEN UnexpectedNode("path", from_node(node))
    ELSE Ok(segments))

\* child_by_kind(node, kind).ok_or_else(|| UnexpectedNode {kind: node.kind(), ..})
required_child(node, kind) ==
    IF child_by_kind(node, kind).some THEN Ok(child_by_kind(node, kind).val)
    ELSE UnexpectedNode(node.kind, from_node(node))

ast_parse_variable_node(node, text) ==
    AndThen(required_child(node, "path"), LAMBDA path_node :
    AndThen(IF child_by_kind(node, "modifier").some
            THEN ast_parse_modifier(child_by_kind(node, "modifier").val, text)
            ELSE Ok("None"), LAMBDA modifier :
    AndThen(parse_whitespace_control(node, text), LAMBDA whitespace :
    AndThen(ast_parse_path(path_node, text), LAMBDA path :
    Ok(Located(VariableNode(path, modifier, whitespace), from_node(node)))))))

parse_unsecure_node(node, text) ==
    AndThen(required_child(node, "path"), LAMBDA path_node :
    AndThen(parse_whitespace_control(node, text), LAMBDA whitespace :
    AndThen(ast_parse_path(path_node, text), LAMBDA path :
    Ok(Located(UnsecureNode(path, whitespace), from_node(node))))))

parse_each_open(node, text) ==
    AndThen(required_child(node, "path"), LAMBDA path_node :
    AndThen(required_child(node, "identifier"), LAMBDA ident_node :
    AndThen(validate_identifier(utf8_text(ident_node, text), from_node(ident_node)),
            LAMBDA valid :
    AndThen(ast_parse_path(path_node, text), LAMBDA path :
    Ok([collection |-> path, item_ident |-> utf8_text(ident_node, text)])))))

\* name_text.split('/').filter(|s| !s.is_empty()) has a segment that
\* starts_with('_'): the first such segment, or None
UnderscoreSegment(name_text) ==
    LET starts == {i \in 1..Len(name_text) :
                      /\ name_text[i] = "_"
                      /\ i = 1 \/ name_text[i - 1] = "/"}
        first == CHOOSE i \in starts : \A j \in starts : i <= j
        ends == {j \in first..Len(name_text) : j = Len(name_text) \/ name_text[j + 1] = "/"}
    IN  IF starts = {} THEN None
        ELSE Some(SubSeq(name_text, first, CHOOSE j \in ends : \A k \in ends : j <= k))

RECURSIVE ast_parse_include_args(_, _, _, _)
\* the loop of parse_include over the named children of include_args
ast_parse_include_args(children, text, i, args) ==
    IF i > Len(children) THEN Ok(args)
    ELSE IF children[i].kind # "include_arg"
    THEN ast_parse_include_args(children, text, i + 1, args)
    ELSE LET arg == children[i]
         IN  IF ~named_child(arg, 0).some \/ ~named_child(arg, 1).some
             THEN UnexpectedNode(arg.kind, from_node(arg))
             ELSE AndThen(validate_identifier(utf8_text(named_child(arg, 0).val, text),
                                              from_node(named_child(arg, 0).val)),
                          LAMBDA valid :
                  AndThen(ast_parse_path(named_child(arg, 1).val, text), LAMBDA path :
                  ast_parse_include_args(children, text, i + 1,
                      Append(args,
                             Located(IncludeArg(utf8_text(named_child(arg, 0).val, text),
                                                path),
                                     from_node(arg))))))

RECURSIVE ast_parse_include_loop(_, _, _, _)
\* the loop of parse_include over named children[i..]; found is name and args
ast_parse_include_loop(children, text, i, found) ==
    IF i > Len(children) THEN Ok(found)
    ELSE IF children[i].kind = "include_name"
    THEN IF UnderscoreSegment(utf8_text(children[i], text)).some
         THEN ParseError("InvalidIdentifier",
                         UnderscoreSegment(utf8_text(children[i], text)).val,
                         from_node(children[i]).line, from_node(children[i]).column)
         ELSE ast_parse_include_loop(children, text, i + 1,
                  [found EXCEPT !.name = Some(utf8_text(children[i], text))])
    ELSE IF children[i].kind = "include_args"
    THEN AndThen(ast_parse_include_args(named_children(children[i]), text, 1, found.args),
                 LAMBDA args :
         ast_parse_include_loop(children, text, i + 1, [found EXCEPT !.args = args]))
    ELSE ast_parse_include_loop(children, text, i + 1, found)

ast_parse_include(node, text) ==
    AndThen(parse_whitespace_control(node, text), LAMBDA whitespace :
    AndThen(ast_parse_include_loop(named_children(node), text, 1,
                                   [name |-> None, args |-> <<>>]), LAMBDA found :
    IF ~found.name.some THEN UnexpectedNode("include", from_node(node))
    ELSE Ok(Located(IncludeNode(found.name.val, found.args, whitespace),
                    from_node(node)))))

RECURSIVE ast_parse_node(_, _)
RECURSIVE parse_else_clause_loop(_, _, _, _)
RECURSIVE ast_parse_if_block_loop(_, _, _, _)
RECURSIVE ast_parse_unless_block_loop(_, _, _, _)
RECURSIVE ast_parse_each_block_loop(_, _, _, _)

\* the loop of parse_else_clause over named children[i..]
parse_else_clause_loop(children, text, i, found) ==
    IF i > Len(children) THEN Ok(found)
    ELSE IF children[i].kind = "else_open"
    THEN AndThen(parse_whitespace_control(children[i], text), LAMBDA ws :
         parse_else_clause_loop(children, text, i + 1, [found EXCEPT !.ws = ws]))
    ELSE AndThen(ast_parse_node(children[i], text), LAMBDA node :
         parse_else_clause_loop(children, text, i + 1,
                                [found EXCEPT !.nodes = Append(@, node)]))

parse_else_clause(node, text) ==
    parse_else_clause_loop(named_children(node), text, 1, [ws |-> NoWs, nodes |-> <<>>])

\* the loop of parse_if_block over named children[i..]
ast_parse_if_block_loop(children, text, i, found) ==
    IF i > Len(children) THEN Ok(found)
    ELSE IF children[i].kind = "if_open"
    THEN AndThen(required_child(children[i], "path"), LAMBDA path_node :
         AndThen(ast_parse_path(path_node, text), LAMBDA path :
         AndThen(parse_whitespace_control(children[i], text), LAMBDA ws :
         ast_parse_if_block_loop(children, text, i + 1,
             [found EXCEPT !.condition = Some(path), !.whitespace_open = ws]))))
    ELSE IF children[i].kind = "else_clause"
    THEN AndThen(parse_else_clause(children[i], text), LAMBDA else_clause :
         ast_parse_if_block_loop(children, text, i + 1,
             [found EXCEPT !.whitespace_else = Some(else_clause.ws),
                           !.else_branch = Some(else_clause.nodes)]))
    ELSE IF children[i].kind = "if_close"
    THEN AndThen(parse_whitespace_control(children[i], text), LAMBDA ws :
         ast_parse_if_block_loop(children, text, i + 1,
                                 [found EXCEPT !.whitespace_close = ws]))
    ELSE AndThen(ast_parse_node(children[i], text), LAMBDA node :
         ast_parse_if_block_loop(children, text, i + 1,
                                 [found EXCEPT !.then_branch = Append(@, node)]))

ast_parse_if_block(node, text) ==
    AndThen(ast_parse_if_block_loop(named_children(node), text, 1,
                [condition |-> None, then_branch |-> <<>>, else_branch |-> None,
                 whitespace_open |-> NoWs, whitespace_else |-> None,
                 whitespace_close |-> NoWs]), LAMBDA found :
    IF ~found.condition.some THEN UnexpectedNode("if_block", from_node(node))
    ELSE Ok(Located(IfBlock(found.condition.val, found.then_branch, found.else_branch,
                            found.whitespace_open, found.whitespace_else,
                            found.whitespace_close),
                    from_node(node))))

\* the loop of parse_unless_block over named children[i..]
ast_parse_unless_block_loop(children, text, i, found) ==
    IF i > Len(children) THEN Ok(found)
    ELSE IF children[i].kind = "unless_open"
    THEN AndThen(required_child(children[i], "path"), LAMBDA path_node :
         AndThen(ast_parse_path(path_node, text), LAMBDA path :
         AndThen(parse_whitespace_control(children[i], text), LAMBDA ws :
         ast_parse_unless_block_loop(children, text, i + 1,
             [found EXCEPT !.condition = Some(path), !.whitespace_open = ws]))))
    ELSE IF children[i].kind = "unless_close"
    THEN AndThen(parse_whitespace_control(children[i], text), LAMBDA ws :
         ast_parse_unless_block_loop(children, text, i + 1,
                                     [found EXCEPT !.whitespace_close = ws]))
    ELSE AndThen(ast_parse_node(children[i], text), LAMBDA node :
         ast_parse_unless_block_loop(children, text, i + 1,
                                     [found EXCEPT !.body = Append(@, node)]))

ast_parse_unless_block(node, text) ==
    AndThen(ast_parse_unless_block_loop(named_children(node), text, 1,
                [condition |-> None, body |-> <<>>,
                 whitespace_open |-> NoWs, whitespace_close |-> NoWs]), LAMBDA found :
    IF ~found.condition.some THEN UnexpectedNode("unless_block", from_node(node))
    ELSE Ok(Located(UnlessBlock(found.condition.val, found.body,
                                found.whitespace_open, found.whitespace_close),
                    from_node(node))))

\* the loop of parse_each_block over named children[i..]
ast_parse_each_block_loop(children, text, i, found) ==
    IF i > Len(children) THEN Ok(found)
    ELSE IF children[i].kind = "each_open"
    THEN AndThen(parse_each_open(children[i], text), LAMBDA header :
         AndThen(parse_whitespace_control(children[i], text), LAMBDA ws :
         ast_parse_each_block_loop(children, text, i + 1,
             [found EXCEPT !.header = Some(header), !.whitespace_open = ws])))
    ELSE IF children[i].kind = "each_close"
    THEN AndThen(parse_whitespace_control(children[i], text), LAMBDA ws :
         ast_parse_each_block_loop(children, text, i + 1,
                                   [found EXCEPT !.whitespace_close = ws]))
    ELSE AndThen(ast_parse_node(children[i], text), LAMBDA node :
         ast_parse_each_block_loop(children, text, i + 1,
                                   [found EXCEPT !.body = Append(@, node)]))

ast_parse_each_block(node, text) ==
    AndThen(ast_parse_each_block_loop(named_children(node), text, 1,
                [header |-> None, body |-> <<>>,
                 whitespace_open |-> NoWs, whitespace_close |-> NoWs]), LAMBDA found :
    IF ~found.header.some THEN UnexpectedNode("each_block", from_node(node))
    ELSE Ok(Located(EachBlock(found.header.val.collection, found.header.val.item_ident,
                              found.body, found.whitespace_open, found.whitespace_close),
                    from_node(node))))

\* parse_node of lib.rs: the AstNode of a node of the tree.  It returns
\* Some(node) in every arm, and the callers push what is in the Some.
ast_parse_node(node, text) ==
    CASE node.kind = "text" -> Ok(Located(TextNode(utf8_text(node, text)), from_node(node)))
      [] node.kind = "delimiter_escape" ->
            Ok(Located(TextNode(<<"{", "[">>), from_node(node)))
      [] node.kind = "variable" -> ast_parse_variable_node(node, text)
      [] node.kind = "unsecure_output" -> parse_unsecure_node(node, text)
      [] node.kind = "if_block" -> ast_parse_if_block(node, text)
      [] node.kind = "unless_block" -> ast_parse_unless_block(node, text)
      [] node.kind = "each_block" -> ast_parse_each_block(node, text)
      [] node.kind = "include" -> ast_parse_include(node, text)
      [] node.kind = "comment" ->
            Ok(Located(CommentNode(WhitespaceControl(
                            StartsWith(utf8_text(node, text), <<"{", "[", "-">>),
                            EndsWith(utf8_text(node, text), <<"-", "]", "}">>))),
                       from_node(node)))
      [] OTHER -> UnexpectedNode(node.kind, from_node(node))

RECURSIVE build_template_loop(_, _, _, _)
\* the loop of build_template over named children[i..]
build_template_loop(children, text, i, nodes) ==
    IF i > Len(children) THEN Ok(nodes)
    ELSE AndThen(ast_parse_node(children[i], text), LAMBDA node :
         build_template_loop(children, text, i + 1, Append(nodes, node)))

\* Template::new(nodes, location)
Template(nodes, location) == [nodes |-> nodes, location |-> location]

build_template(tree) ==
    AndThen(build_template_loop(named_children(tree.root_node), tree.source, 1, <<>>),
            LAMBDA nodes :
    Ok(Template(nodes, from_node(tree.root_node))))

RECURSIVE find_error_recursive(_)
RECURSIVE find_error_in(_, _)
\* the first of children[i..] below which an error is found
find_error_in(children, i) ==
    IF i > Len(children) THEN None
    ELSE IF find_error_recursive(children[i]).some THEN find_error_recursive(children[i])
    ELSE find_error_in(children, i + 1)

find_error_recursive(node) ==
    IF node.is_error \/ node.is_missing THEN Some(node)
    ELSE find_error_in(node.children, 1)

\* locate_error: the location and the byte range of the first error node, or
\* of the root
locate_error(tree) ==
    LET at == IF find_error_recursive(tree.root_node).some
              THEN find_error_recursive(tree.root_node).val
              ELSE tree.root_node
    IN  [location |-> from_node(at), byte_range |-> <<at.start_byte, at.end_byte>>]

\* ParseError::SyntaxError {line, column, byte_range}
SyntaxError(location, byte_range) ==
    Err("SyntaxError", [line |-> location.line, column |-> location.column,
                        byte_range |-> byte_range])

\* natsuzora_ast::parse(source), given the tree that parser.parse(source, None)
\* returned for the source
ast_parse(tree) ==
    IF has_error(tree.root_node)
    THEN SyntaxError(locate_error(tree).location, locate_error(tree).byte_range)
    ELSE build_template(tree)

(***************************************************************************)
(* template_loader::TemplateLoader.  A loader is its canonical             *)
(* include_root, its cache (include name -> Template) and its              *)
(* include_stack.  load and load_and_parse return, beside the result, the  *)
(* new cache and the paths whose content was read.                         *)
(***************************************************************************)
load_and_parse(fs, include_root, name) ==
    Bind(resolve_template_path(include_root, name), LAMBDA path :
    Bind(ensure_within_root(fs, include_root, path), LAMBDA inside :
        IF ~inside.ok THEN [result |-> inside, reads |-> <<>>]
        ELSE IF ~is_file(fs, path)
        THEN [result |-> Err("IncludeError", "Include file not found"), reads |-> <<>>]
        ELSE Bind(read_to_string(fs, path), LAMBDA source :
                 \* fs::read_to_string(&path)?  converts the io::Error with #[from]
                 IF ~source.ok THEN [result |-> source, reads |-> <<path>>]
                 \* natsuzora_ast::parse(&source).map_err(..)
                 ELSE Bind(ast_parse(source.val), LAMBDA template :
                     IF ~template.ok
                     THEN [result |-> Err("IncludeError", "Failed to parse include"),
                           reads |-> <<path>>]
                     ELSE [result |-> template, reads |-> <<path>>]))))

\* load that reads and parses the file again although the name is in the cache
load_uncached(fs, include_root, cache, include_stack, name) ==
    LET valid == validate_include_name(name)
    IN  IF ~valid.ok THEN [result |-> valid, cache |-> cache, reads |-> <<>>]
        ELSE IF \E i \in 1..Len(include_stack) : include_stack[i] = name
        THEN [result |-> Err("IncludeError", "Circular include detected"),
              cache |-> cache, reads |-> <<>>]
        ELSE LET loaded == load_and_parse(fs, include_root, name)
             IN  IF ~loaded.result.ok
                 THEN [result |-> loaded.result, cache |-> cache, reads |-> loaded.reads]
                 ELSE [result |-> loaded.result,
                       cache |-> [n \in DOMAIN cache \cup {name} |->
                                    IF n = name THEN loaded.result.val ELSE cache[n]],
                       reads |-> loaded.reads]

\* load looking into the cache before the include stack
load_cache_first(fs, include_root, cache, include_stack, name) ==
    LET valid == validate_include_name(name)
    IN  IF ~valid.ok THEN [result |-> valid, cache |-> cache, reads |-> <<>>]
        ELSE IF name \in DOMAIN cache
        THEN [result |-> Ok(cache[name]), cache |-> cache, reads |-> <<>>]
        ELSE IF \E i \in 1..Len(include_stack) : include_stack[i] = name
        THEN [result |-> Err("IncludeError", "Circular include detected"),
              cache |-> cache, reads |-> <<>>]
        ELSE LET loaded == load_and_parse(fs, include_root, name)
             IN  IF ~loaded.result.ok
                 THEN [result |-> loaded.result, cache |-> cache, reads |-> loaded.reads]
                 ELSE [result |-> loaded.result,
                       cache |-> [n \in DOMAIN cache \cup {name} |->
                                    IF n = name THEN loaded.result.val ELSE cache[n]],
                       reads |-> loaded.reads]

load(fs, include_root, cache, include_stack, name) ==
    LET valid == validate_include_name(name)
    IN  IF ~valid.ok THEN [result |-> valid, cache |-> cache, reads |-> <<>>]
        ELSE IF \E i \in 1..Len(include_stack) : include_stack[i] = name
        THEN [result |-> Err("IncludeError", "Circular include detected"),
              cache |-> cache, reads |-> <<>>]
        ELSE IF name \in DOMAIN cache
        THEN [result |-> Ok(cache[name]), cache |-> cache, reads |-> <<>>]
        ELSE Bind(load_and_parse(fs, include_root, name), LAMBDA loaded :
                 IF ~loaded.result.ok
                 THEN [result |-> loaded.result, cache |-> cache, reads |-> loaded.reads]
                 ELSE [result |-> loaded.result,
                       cache |-> [n \in DOMAIN cache \cup {name} |->
                                    IF n = name THEN loaded.result.val ELSE cache[n]],
                       reads |-> loaded.reads])

push_include(include_stack, name) == Append(include_stack, name)

\* pop_include leaving the stack as it is
pop_include_never(include_stack) == include_stack

\* Vec::pop: nothing happens on an empty stack
pop_include(include_stack) ==
    IF include_stack = <<>> THEN <<>> ELSE Front(include_stack)

(***************************************************************************)
(* The state of the program.                                               *)
(***************************************************************************)
VARIABLES
    source,         \* None, or Some(the text handed to the Lexer of lexer.rs)
    tokens,         \* None, or Some(what tokenize returned)
    processed,      \* None, or Some(what process returned)
    parsed,         \* None, or Some(what the Parser of parser.rs returned, or
                    \* the error of the stage that failed before it)
    tree,           \* None, or Some(the Tree of the source handed to
                    \* Natsuzora::parse)
    built,          \* None, or Some(what Natsuzora::parse returned)
    previous,       \* None, or Some(the tree before a comment was deleted
                    \* from its source, with what it parsed and rendered to)
    template,       \* Natsuzora.template: the nodes of the parsed template
    data,           \* the Value handed to every render call
    fs,             \* the filesystem
    include_root,   \* Natsuzora.include_root: None or Some(path)
    loader_root,    \* None, or Some(the loader's canonical include_root)
    cache,          \* TemplateLoader.cache
    include_stack,  \* TemplateLoader.include_stack
    root,           \* Context.root
    local_stack,    \* Context.local_stack
    frames,         \* the active calls of render_nodes, innermost last
    pc,             \* "source", "tokens", "processed" on the way through
                    \* lexer.rs, token_processor.rs and parser.rs, "parsed"
                    \* after them; "tree" before Natsuzora::parse; "rejected"
                    \* when either failed; "idle" between render calls,
                    \* "rendering" inside one
    results,        \* what the finished render calls returned, in order
    trace           \* what the running render call has done so far

vars == <<source, tokens, processed, parsed, tree, built, previous,
          template, data, fs, include_root, loader_root, cache, include_stack,
          root, local_stack, frames, pc, results, trace>>
inputs == <<source, tokens, processed, parsed, tree, built, previous,
            template, data, fs, include_root>>
\* what the front ends leave alone
render_state == <<data, fs, include_root, loader_root, cache, include_stack,
                  root, local_stack, frames, results, trace>>

\* a new call of render_nodes(nodes, context) made on behalf of `node`
Frame(kind, node, nodes, saved) ==
    [kind |-> kind, node |-> node, nodes |-> nodes, idx |-> 1, output |-> <<>>,
     pending_trim |-> FALSE, saved |-> saved]

Top == Last(frames)
\* the node render_nodes is about to render
Cur == Top.nodes[Top.idx]
AtNode(kind) ==
    /\ pc = "rendering" /\ frames # <<>>
    /\ Top.idx <= Len(Top.nodes) /\ Cur.k = kind
AtEnd(kind) ==
    /\ pc = "rendering" /\ frames # <<>>
    /\ Top.idx > Len(Top.nodes) /\ Top.kind = kind

\* a render_nodes that does not go on to the next node
Emit_staying(frame, rendered, ws) == frame

\* render_nodes, after render_node_with_ws returned (rendered, ws)
Emit(frame, rendered, ws) ==
    [frame EXCEPT
        !.output = (IF ws.trim_before /\ frame.output # <<>>
                    THEN trim_trailing_whitespace(frame.output)
                    ELSE frame.output) \o rendered,
        !.pending_trim = ws.trim_after,
        !.idx = @ + 1]

\* the frames once the innermost call has rendered its current node
Emitted(rendered, ws) == [frames EXCEPT ![Len(frames)] = Emit(@, rendered, ws)]

\* the frames once the innermost call returned `rendered` for its caller's node
Returned(rendered, ws) ==
    [Front(frames) EXCEPT ![Len(frames) - 1] = Emit(@, rendered, ws)]

\* the names of the partials being rendered, outermost first
RECURSIVE Chain(_)
Chain(fr) ==
    IF fr = <<>> THEN <<>>
    ELSE IF Head(fr).kind = "include" THEN <<Head(fr).node.name>> \o Chain(Tail(fr))
    ELSE Chain(Tail(fr))

\* an error that leaves the names of the includes it passes on the include stack
unwind_keeping_names(fr, stack) == stack

\* an error that only the innermost render_include cleans up after
unwind_innermost(fr, stack) ==
    IF \E i \in 1..Len(fr) : fr[i].kind = "include" THEN pop_include(stack) ELSE stack

RECURSIVE unwind(_, _)
\* an error travels up through the frames: render_include pops the include
\* it pushed before it returns the error; the other callers return at once
unwind(fr, stack) ==
    IF fr = <<>> THEN stack
    ELSE unwind(Front(fr), IF Last(fr).kind = "include" THEN pop_include(stack) ELSE stack)

\* the render call returns `result`; its Context is dropped
Return(result, new_include_stack, new_cache, events) ==
    /\ pc' = "idle"
    /\ frames' = <<>>
    /\ results' = Append(results, result)
    /\ include_stack' = new_include_stack
    /\ cache' = new_cache
    /\ root' = <<>>
    /\ local_stack' = <<>>
    /\ trace' = trace \o events
    /\ UNCHANGED <<inputs, loader_root>>

\* an error Err(..) is propagated with `?` to the caller of render
Fail(error, new_cache, events) ==
    Return(error, unwind(frames, include_stack), new_cache, events)

\* the running call goes on with new frames
Continue(new_frames, events) ==
    /\ frames' = new_frames
    /\ trace' = trace \o events
    /\ UNCHANGED <<inputs, loader_root, cache, include_stack, root, local_stack,
                   pc, results>>

(***************************************************************************)
(* error::NatsuzoraError and Natsuzora::parse.  A variant is known by the  *)
(* fields it has; Natsuzora::parse wraps the error of natsuzora_ast::parse *)
(* (whose text names a line and a column) into a ParseError.               *)
(***************************************************************************)
\* the fields of each variant of NatsuzoraError
NatsuzoraError ==
    [ParseError |-> {"message", "location"},
     UndefinedVariable |-> {"name", "location"},
     NullValueError |-> {"name", "location"},
     EmptyStringError |-> {"name", "location"},
     TypeError |-> {"message"},
     IncludeError |-> {"message"},
     ShadowingError |-> {"name"},
     IoError |-> {"0"}]

\* #[derive(Default)] on Location
Location_default == [line |-> 0, column |-> 0, byte_offset |-> 0]

\* Natsuzora::parse, given what natsuzora_ast::parse(source) returned
Natsuzora_parse(result) ==
    IF result.ok THEN Ok([template |-> result.val, include_root |-> None])
    ELSE [ok |-> FALSE, err |-> "ParseError", message |-> result,
          location |-> Location_default]

(***************************************************************************)
(* Natsuzora::render and Renderer::render.  A render call either makes its *)
(* own loader (Natsuzora::render) or, shared = TRUE, is handed the loader  *)
(* of the call before it (Renderer::new(Some(loader))).                    *)
(***************************************************************************)
StartRender ==
    /\ pc = "idle"
    /\ Len(results) < MaxRenders
    /\ \E shared \in BOOLEAN :
        /\ shared => loader_root.some
        /\ LET made == IF include_root.some THEN resolver_new(fs, include_root.val)
                       ELSE Ok(<<>>)
               context == context_new(data)
           IN  /\ trace' = <<>>
               /\ UNCHANGED inputs
               /\ loader_root' = IF shared THEN loader_root
                                 ELSE IF include_root.some /\ made.ok THEN Some(made.val)
                                 ELSE None
               /\ cache' = IF shared THEN cache ELSE <<>>
               /\ include_stack' = IF shared THEN include_stack ELSE <<>>
               /\ IF ~shared /\ ~made.ok
                  THEN \* TemplateLoader::new(..)? in Natsuzora::render
                       /\ results' = Append(results, made)
                       /\ UNCHANGED <<root, local_stack, frames, pc>>
                  ELSE IF ~context.ok
                  THEN \* Context::new(data)? in Renderer::render
                       /\ results' = Append(results, context)
                       /\ UNCHANGED <<root, local_stack, frames, pc>>
                  ELSE /\ root' = context.val
                       /\ local_stack' = <<>>
                       /\ frames' = <<Frame("top", None, template, <<>>)>>
                       /\ pc' = "rendering"
                       /\ UNCHANGED results

\* render_nodes returns to Renderer::render
ReturnTop ==
    /\ AtEnd("top")
    /\ Return(Ok(Top.output), include_stack, cache, <<>>)

(***************************************************************************)
(* render_nodes on a node without children                                 *)
(***************************************************************************)
RenderText ==
    /\ AtNode("Text")
    /\ IF Top.pending_trim
       THEN Continue([frames EXCEPT ![Len(frames)] =
                        [@ EXCEPT !.output = @ \o trim_leading_whitespace(Cur.content),
                                  !.pending_trim = FALSE,
                                  !.idx = @ + 1]], <<>>)
       ELSE Continue(Emitted(Cur.content, NoWs), <<>>)

RenderVariable ==
    /\ AtNode("Variable")
    /\ LET rendered == render_variable(root, local_stack, Cur)
           event == [e |-> "leaf", node |-> Cur,
                     value |-> resolve(root, local_stack, Cur.path), res |-> rendered]
       IN  IF rendered.ok THEN Continue(Emitted(rendered.val, Cur.whitespace), <<event>>)
           ELSE Fail(rendered, cache, <<event>>)

RenderUnsecure ==
    /\ AtNode("Unsecure")
    /\ LET rendered == render_unsecure(root, local_stack, Cur)
           event == [e |-> "leaf", node |-> Cur,
                     value |-> resolve(root, local_stack, Cur.path), res |-> rendered]
       IN  IF rendered.ok THEN Continue(Emitted(rendered.val, Cur.whitespace), <<event>>)
           ELSE Fail(rendered, cache, <<event>>)

RenderComment ==
    /\ AtNode("Comment")
    /\ Continue(Emitted(<<>>, Cur.whitespace), <<>>)

(***************************************************************************)
(* render_if and render_unless                                             *)
(***************************************************************************)
RenderIf ==
    /\ AtNode("If")
    /\ LET value == resolve(root, local_stack, Cur.condition)
           taken == IF ~value.ok THEN "error"
                    ELSE IF is_truthy(value.val) THEN "then"
                    ELSE IF Cur.else_branch.some THEN "else"
                    ELSE "none"
           event == [e |-> "branch", node |-> Cur, value |-> value, taken |-> taken]
           ws == WhitespaceControl(Cur.whitespace_open.trim_before,
                                   Cur.whitespace_close.trim_after)
       IN  CASE taken = "error" -> Fail(value, cache, <<event>>)
             [] taken = "then" ->
                  Continue(Append(frames, Frame("then", Cur, Cur.then_branch, local_stack)),
                           <<event>>)
             [] taken = "else" ->
                  Continue(Append(frames,
                                  Frame("else", Cur, Cur.else_branch.val, local_stack)),
                           <<event>>)
             [] taken = "none" -> Continue(Emitted(<<>>, ws), <<event>>)

\* what render_if, render_unless and render_each make of a rendered body
TrimBody(output, trim_start, trim_end) ==
    LET started == IF trim_start THEN trim_leading_whitespace(output) ELSE output
    IN  IF trim_end /\ started # <<>> THEN trim_trailing_whitespace(started) ELSE started

\* the then-branch or the else-branch has been rendered
ReturnIf ==
    /\ AtEnd("then") \/ AtEnd("else")
    /\ LET node == Top.node
           ws == WhitespaceControl(node.whitespace_open.trim_before,
                                   node.whitespace_close.trim_after)
           output ==
               IF Top.kind = "then"
               THEN TrimBody(Top.output, node.whitespace_open.trim_after,
                             IF node.whitespace_else.some
                             THEN node.whitespace_else.val.trim_before
                             ELSE node.whitespace_close.trim_before)
               ELSE TrimBody(Top.output,
                             node.whitespace_else.some
                                /\ node.whitespace_else.val.trim_after,
                             node.whitespace_close.trim_before)
       IN  Continue(Returned(output, ws),
                    <<[e |-> "block", node |-> node, body |-> Top.output, out |-> output]>>)

RenderUnless ==
    /\ AtNode("Unless")
    /\ LET value == resolve(root, local_stack, Cur.condition)
           taken == IF ~value.ok THEN "error"
                    ELSE IF is_truthy(value.val) THEN "none"
                    ELSE "body"
           event == [e |-> "branch", node |-> Cur, value |-> value, taken |-> taken]
           ws == WhitespaceControl(Cur.whitespace_open.trim_before,
                                   Cur.whitespace_close.trim_after)
       IN  CASE taken = "error" -> Fail(value, cache, <<event>>)
             [] taken = "none" -> Continue(Emitted(<<>>, ws), <<event>>)
             [] taken = "body" ->
                  Continue(Append(frames, Frame("unless", Cur, Cur.body, local_stack)),
                           <<event>>)

ReturnUnless ==
    /\ AtEnd("unless")
    /\ LET node == Top.node
           ws == WhitespaceControl(node.whitespace_open.trim_before,
                                   node.whitespace_close.trim_after)
           output == TrimBody(Top.output, node.whitespace_open.trim_after,
                              node.whitespace_close.trim_before)
       IN  Continue(Returned(output, ws),
                    <<[e |-> "block", node |-> node, body |-> Top.output, out |-> output]>>)

(***************************************************************************)
(* render_each.  The frame of a body under way also holds the locals of    *)
(* render_each: index, len and acc (its `output`), and, for the record,    *)
(* the array, the items bound so far and the bodies rendered so far.       *)
(***************************************************************************)
\* the running call goes on with new frames and a new scope stack
Scoped(new_frames, new_local_stack, events) ==
    /\ frames' = new_frames
    /\ local_stack' = new_local_stack
    /\ trace' = trace \o events
    /\ UNCHANGED <<inputs, loader_root, cache, include_stack, root, pc, results>>

Binding(name, value) == [n \in {name} |-> value]

EachWs(node) ==
    WhitespaceControl(node.whitespace_open.trim_before, node.whitespace_close.trim_after)

RenderEach ==
    /\ AtNode("Each")
    /\ LET len == get_array_len(root, local_stack, Cur.collection)
           item == get_array_item(root, local_stack, Cur.collection, 0)
           begin == [e |-> "each_begin", node |-> Cur, len |-> len,
                     bound |-> name_exists(root, local_stack, Cur.item_ident)]
       IN  IF ~len.ok THEN Fail(len, cache, <<begin>>)
           ELSE IF len.val = 0
           THEN Continue(Emitted(<<>>, EachWs(Cur)),
                         <<begin, [e |-> "each", node |-> Cur, array |-> <<>>,
                                   items |-> <<>>, outs |-> <<>>, out |-> <<>>]>>)
           ELSE IF ~item.ok THEN Fail(item, cache, <<begin>>)
           ELSE \E pushed \in push_scope(root, local_stack,
                                         Binding(Cur.item_ident, item.val)) :
                IF ~pushed.ok THEN Fail(pushed, cache, <<begin>>)
                ELSE Scoped(Append(frames,
                                   Frame("each", Cur, Cur.body, local_stack) @@
                                   [index |-> 0, len |-> len.val, acc |-> <<>>,
                                    array |-> resolve(root, local_stack,
                                                      Cur.collection).val.a,
                                    items |-> <<item.val>>, outs |-> <<>>]),
                            pushed.val, <<begin>>)

\* the body has been rendered for one item
ReturnEach ==
    /\ AtEnd("each")
    /\ LET node == Top.node
           popped == pop_scope(local_stack)
           iteration == TrimBody(Top.output, node.whitespace_open.trim_after,
                                 node.whitespace_close.trim_before)
           acc == Top.acc \o iteration
           outs == Append(Top.outs, Top.output)
           index == Top.index + 1
           item == get_array_item(root, popped, node.collection, index)
           next == [e |-> "each_next", node |-> node, index |-> index]
       IN  IF index < Top.len
           THEN IF ~item.ok THEN Fail(item, cache, <<next>>)
                ELSE \E pushed \in push_scope(root, popped,
                                              Binding(node.item_ident, item.val)) :
                     IF ~pushed.ok THEN Fail(pushed, cache, <<next>>)
                     ELSE Scoped([frames EXCEPT ![Len(frames)] =
                                     [@ EXCEPT !.idx = 1, !.output = <<>>,
                                               !.pending_trim = FALSE,
                                               !.index = index, !.acc = acc,
                                               !.items = Append(@, item.val),
                                               !.outs = outs]],
                                 pushed.val, <<next>>)
           ELSE Scoped(Returned(acc, EachWs(node)), popped,
                       <<[e |-> "each", node |-> node, array |-> Top.array,
                          items |-> Top.items, outs |-> outs, out |-> acc]>>)

(***************************************************************************)
(* render_include                                                          *)
(***************************************************************************)
\* the HashMap built from the arguments: a later insert replaces an earlier one
Bindings(args, values) ==
    [key \in {args[i].name : i \in 1..Len(args)} |->
        values[CHOOSE i \in 1..Len(args) :
                 /\ args[i].name = key
                 /\ \A j \in 1..Len(args) : args[j].name = key => j <= i].val]

RenderInclude ==
    /\ AtNode("Include")
    /\ IF ~loader_root.some
       THEN Fail(Err("IncludeError", "Template loader not configured for include"),
                 cache, <<>>)
       ELSE \E loaded \in {load(fs, loader_root.val, cache, include_stack, Cur.name)} :
            LET node == Cur
                called == [e |-> "load", name |-> node.name, chain |-> Chain(frames),
                           cached |-> node.name \in DOMAIN cache,
                           result |-> loaded.result, reads |-> loaded.reads]
                values == resolve_args(root, local_stack, node.args)
                failed == {i \in 1..Len(node.args) : ~values[i].ok}
                first == CHOOSE i \in failed : \A j \in failed : i <= j
                bindings == Bindings(node.args, values)
            IN  IF ~loaded.result.ok THEN Fail(loaded.result, loaded.cache, <<called>>)
                ELSE IF failed # {} THEN Fail(values[first], loaded.cache, <<called>>)
                ELSE /\ frames' = Append(frames,
                                         Frame("include", node, loaded.result.val.nodes,
                                               local_stack))
                     /\ include_stack' = push_include(include_stack, node.name)
                     /\ local_stack' = push_include_scope(root, local_stack, bindings)
                     /\ cache' = loaded.cache
                     /\ trace' = trace \o <<called, [e |-> "enter", node |-> node,
                                                      bindings |-> bindings]>>
                     /\ UNCHANGED <<inputs, loader_root, root, pc, results>>

\* the nodes of the partial have been rendered
ReturnInclude ==
    /\ AtEnd("include")
    /\ frames' = Returned(Top.output, Top.node.whitespace)
    /\ local_stack' = pop_scope(local_stack)
    /\ include_stack' = pop_include(include_stack)
    /\ trace' = Append(trace, [e |-> "leave", node |-> Top.node])
    /\ UNCHANGED <<inputs, loader_root, cache, root, pc, results>>

(***************************************************************************)
(* The inputs: templates, data and filesystems a behaviour starts from.    *)
(***************************************************************************)
Id_v == <<"v">>
Id_o == <<"o">>
Id_k == <<"k">>
Id_u == <<"u">>
Id_x == <<"x">>
Id_y == <<"y">>
Id_xs == <<"x", "s">>
Id_name == <<"n", "a", "m", "e">>
Id_other == <<"o", "t", "h", "e", "r">>

StrChars == {"a", " ", "&", "<", ">", "\"", "'"}
Strings == UNION {[1..n -> StrChars] : n \in 0..MaxStrLen}
IntSet == {0, 7, -12, 1050}

ValueSet ==
    {Null, Bool(TRUE), Bool(FALSE)}
        \cup {Integer(n) : n \in IntSet}
        \cup {String(str) : str \in Strings}
        \cup {Array(<<>>), Array(<<Integer(1)>>)}
        \cup {Object(<<>>), Object(Id_k :> String(<<"a">>))}

Modifiers == {"None", "Nullable", "Required"}

Yes == TextNode(<<"y", "e", "s">>)
No == TextNode(<<"n", "o">>)

\* templates about one value v
ValueTemplates ==
    {<<TextNode(<<"[">>), VariableNode(<<Id_v>>, m, NoWs), TextNode(<<"]">>)>> :
        m \in Modifiers}
    \cup {<<VariableNode(<<Id_o, Id_k>>, m, NoWs)>> : m \in Modifiers}
    \cup {<<VariableNode(<<Id_v, Id_k>>, "Nullable", NoWs)>>,
          <<VariableNode(<<Id_u>>, "Nullable", NoWs)>>,
          <<UnsecureNode(<<Id_v>>, NoWs), CommentNode(NoWs)>>,
          <<IfBlock(<<Id_v>>, <<Yes>>, Some(<<No>>), NoWs, Some(NoWs), NoWs)>>,
          <<IfBlock(<<Id_v>>, <<Yes>>, None, NoWs, None, NoWs)>>,
          <<UnlessBlock(<<Id_v>>, <<Yes>>, NoWs, NoWs)>>,
          <<EachBlock(<<Id_v>>, Id_x, <<Yes>>, NoWs, NoWs)>>}

NoFs == (<< <<"r">> >> :> Dir)

ValueScenarios ==
    {[template |-> t,
      data |-> Object((Id_v :> val) @@ (Id_o :> Object(Id_k :> val))),
      fs |-> NoFs, include_root |-> None] : t \in ValueTemplates, val \in ValueSet}
    \cup
    \* data that is not an object
    {[template |-> <<Yes>>, data |-> val, fs |-> NoFs, include_root |-> None] :
        val \in {Null, Integer(7), Array(<<>>), Object(<<>>)}}

\* templates about one array xs
Elems == {String(<<"a">>), String(<<" ", "<">>), Integer(7), Null}
Arrays == UNION {[1..n -> Elems] : n \in 0..MaxArrLen}
Dash == TextNode(<<"-">>)
Ws == {NoWs, WhitespaceControl(TRUE, TRUE)}

EachTemplates ==
    {<<TextNode(<<"a", " ">>),
       EachBlock(<<Id_xs>>, Id_x, <<VariableNode(<<Id_x>>, "Nullable", NoWs), Dash>>,
                 open, close),
       TextNode(<<" ", "b">>)>> : open \in Ws, close \in Ws}
    \cup {<<EachBlock(<<Id_xs>>, Id_x, <<UnsecureNode(<<Id_x>>, NoWs)>>, NoWs, NoWs)>>,
          <<EachBlock(<<Id_xs>>, Id_x,
                      <<EachBlock(<<Id_xs>>, Id_y,
                                  <<VariableNode(<<Id_x>>, "Nullable", NoWs),
                                    VariableNode(<<Id_y>>, "Nullable", NoWs)>>,
                                  NoWs, NoWs), Dash>>, NoWs, NoWs)>>,
          <<EachBlock(<<Id_xs>>, Id_x,
                      <<EachBlock(<<Id_xs>>, Id_x, <<Dash>>, NoWs, NoWs)>>, NoWs, NoWs)>>,
          <<EachBlock(<<Id_xs>>, Id_x, <<Dash>>, NoWs, NoWs),
            VariableNode(<<Id_x>>, "Nullable", NoWs)>>,
          <<IfBlock(<<Id_xs>>,
                    <<EachBlock(<<Id_xs>>, Id_v, <<Dash>>, NoWs, NoWs)>>,
                    Some(<<EachBlock(<<Id_xs>>, Id_v, <<Dash>>, NoWs, NoWs), No>>),
                    NoWs, Some(NoWs), NoWs)>>}

EachScenarios ==
    {[template |-> t,
      data |-> Object((Id_xs :> Array(a)) @@ (Id_v :> String(<<"c">>)) @@ bound),
      fs |-> NoFs, include_root |-> None] :
        t \in EachTemplates, a \in Arrays, bound \in {<<>>, Id_x :> String(<<"b">>)}}

\* include names
Name_p == <<"/", "p">>
Name_q == <<"/", "q">>
Name_dr == <<"/", "d", "/", "r">>
BadNames == {<<"p">>, <<"/">>, <<"/", ".", ".", "/", "p">>, <<"/", "p", "/", "/", "q">>,
             <<"/", "_", "p">>, <<"/", "p", ":">>}

\* directories and files
R == <<"r">>
OUT == <<"o", "u", "t">>
LR == <<"l", "r">>
D == <<"d">>
PartialFile(stem) == <<"_">> \o stem \o <<".", "n", "t", "z", "r">>

\* partials, each the tree of the text of a file
\* Hi,{[ name ]}
Greeting ==
    Tree(<<"H", "i", ",", "{", "[", " ", "n", "a", "m", "e", " ", "]", "}">>,
         Node("template", 0, 13, 0, 0, <<
             Node("text", 0, 3, 0, 0, <<>>),
             Node("variable", 3, 13, 0, 3, <<
                 Node("tag_open", 3, 5, 0, 3, <<>>),
                 Node("path", 6, 10, 0, 6, <<
                     Node("identifier", 6, 10, 0, 6, <<>>)>>),
                 Node("tag_close", 11, 13, 0, 11, <<>>)>>)>>))

\* s{[!include /p]}
SelfInclude ==
    Tree(<<"s", "{", "[", "!", "i", "n", "c", "l", "u", "d", "e", " ", "/", "p", "]",
           "}">>,
         Node("template", 0, 16, 0, 0, <<
             Node("text", 0, 1, 0, 0, <<>>),
             Node("include", 1, 16, 0, 1, <<
                 Node("tag_open", 1, 3, 0, 1, <<>>),
                 Anonymous("!include", 3, 11, 0, 3),
                 Node("include_name", 12, 14, 0, 12, <<>>),
                 Node("tag_close", 14, 16, 0, 14, <<>>)>>)>>))

\* p{[!include /q]}
ToQ ==
    Tree(<<"p", "{", "[", "!", "i", "n", "c", "l", "u", "d", "e", " ", "/", "q", "]",
           "}">>,
         Node("template", 0, 16, 0, 0, <<
             Node("text", 0, 1, 0, 0, <<>>),
             Node("include", 1, 16, 0, 1, <<
                 Node("tag_open", 1, 3, 0, 1, <<>>),
                 Anonymous("!include", 3, 11, 0, 3),
                 Node("include_name", 12, 14, 0, 12, <<>>),
                 Node("tag_close", 14, 16, 0, 14, <<>>)>>)>>))

\* q{[!include /p]}
BackToP ==
    Tree(<<"q", "{", "[", "!", "i", "n", "c", "l", "u", "d", "e", " ", "/", "p", "]",
           "}">>,
         Node("template", 0, 16, 0, 0, <<
             Node("text", 0, 1, 0, 0, <<>>),
             Node("include", 1, 16, 0, 1, <<
                 Node("tag_open", 1, 3, 0, 1, <<>>),
                 Anonymous("!include", 3, 11, 0, 3),
                 Node("include_name", 12, 14, 0, 12, <<>>),
                 Node("tag_close", 14, 16, 0, 14, <<>>)>>)>>))

\* {[#each xs as name]}-{[/each]}
EachName ==
    Tree(<<"{", "[", "#", "e", "a", "c", "h", " ", "x", "s", " ", "a", "s", " ", "n",
           "a", "m", "e", "]", "}", "-", "{", "[", "/", "e", "a", "c", "h", "]", "}">>,
         Node("template", 0, 30, 0, 0, <<
             Node("each_block", 0, 30, 0, 0, <<
                 Node("each_open", 0, 20, 0, 0, <<
                     Node("tag_open", 0, 2, 0, 0, <<>>),
                     Anonymous("#each", 2, 7, 0, 2),
                     Node("path", 8, 10, 0, 8, <<
                         Node("identifier", 8, 10, 0, 8, <<>>)>>),
                     Anonymous("as", 11, 13, 0, 11),
                     Node("identifier", 14, 18, 0, 14, <<>>),
                     Node("tag_close", 18, 20, 0, 18, <<>>)>>),
                 Node("text", 20, 21, 0, 20, <<>>),
                 Node("each_close", 21, 30, 0, 21, <<
                     Node("tag_open", 21, 23, 0, 21, <<>>),
                     Anonymous("/each", 23, 28, 0, 23),
                     Node("tag_close", 28, 30, 0, 28, <<>>)>>)>>)>>))

\* {[#each xs as x]}{[ x ]}{[ name ]}{[/each]}
EachX ==
    Tree(<<"{", "[", "#", "e", "a", "c", "h", " ", "x", "s", " ", "a", "s", " ", "x",
           "]", "}", "{", "[", " ", "x", " ", "]", "}", "{", "[", " ", "n", "a", "m",
           "e", " ", "]", "}", "{", "[", "/", "e", "a", "c", "h", "]", "}">>,
         Node("template", 0, 43, 0, 0, <<
             Node("each_block", 0, 43, 0, 0, <<
                 Node("each_open", 0, 17, 0, 0, <<
                     Node("tag_open", 0, 2, 0, 0, <<>>),
                     Anonymous("#each", 2, 7, 0, 2),
                     Node("path", 8, 10, 0, 8, <<
                         Node("identifier", 8, 10, 0, 8, <<>>)>>),
                     Anonymous("as", 11, 13, 0, 11),
                     Node("identifier", 14, 15, 0, 14, <<>>),
                     Node("tag_close", 15, 17, 0, 15, <<>>)>>),
                 Node("variable", 17, 24, 0, 17, <<
                     Node("tag_open", 17, 19, 0, 17, <<>>),
                     Node("path", 20, 21, 0, 20, <<
                         Node("identifier", 20, 21, 0, 20, <<>>)>>),
                     Node("tag_close", 22, 24, 0, 22, <<>>)>>),
                 Node("variable", 24, 34, 0, 24, <<
                     Node("tag_open", 24, 26, 0, 24, <<>>),
                     Node("path", 27, 31, 0, 27, <<
                         Node("identifier", 27, 31, 0, 27, <<>>)>>),
                     Node("tag_close", 32, 34, 0, 32, <<>>)>>),
                 Node("each_close", 34, 43, 0, 34, <<
                     Node("tag_open", 34, 36, 0, 34, <<>>),
                     Anonymous("/each", 36, 41, 0, 36),
                     Node("tag_close", 41, 43, 0, 41, <<>>)>>)>>)>>))

\* {[ u ]}
Undefined ==
    Tree(<<"{", "[", " ", "u", " ", "]", "}">>,
         Node("template", 0, 7, 0, 0, <<
             Node("variable", 0, 7, 0, 0, <<
                 Node("tag_open", 0, 2, 0, 0, <<>>),
                 Node("path", 3, 4, 0, 3, <<
                     Node("identifier", 3, 4, 0, 3, <<>>)>>),
                 Node("tag_close", 5, 7, 0, 5, <<>>)>>)>>))

\* {[ x ]}
ShowX ==
    Tree(<<"{", "[", " ", "x", " ", "]", "}">>,
         Node("template", 0, 7, 0, 0, <<
             Node("variable", 0, 7, 0, 0, <<
                 Node("tag_open", 0, 2, 0, 0, <<>>),
                 Node("path", 3, 4, 0, 3, <<
                     Node("identifier", 3, 4, 0, 3, <<>>)>>),
                 Node("tag_close", 5, 7, 0, 5, <<>>)>>)>>))

\* secret
Secret ==
    Tree(<<"s", "e", "c", "r", "e", "t">>,
         Node("template", 0, 6, 0, 0, <<
             Node("text", 0, 6, 0, 0, <<>>)>>))

\* a file with a syntax error: {[ x
Unclosed ==
    Tree(<<"{", "[", " ", "x">>,
         Node("template", 0, 4, 0, 0, <<
             Node("variable", 0, 4, 0, 0, <<
                 Node("tag_open", 0, 2, 0, 0, <<>>),
                 Node("path", 3, 4, 0, 3, <<
                     Node("identifier", 3, 4, 0, 3, <<>>)>>),
                 MissingNode("tag_close", 4, 0, 4)>>)>>))

\* what may be at /r/_p.ntzr
EntriesP ==
    {None, Some(File(Greeting)), Some(File(SelfInclude)), Some(File(ToQ)),
     Some(File(EachName)), Some(File(EachX)), Some(File(Undefined)),
     Some(File(ShowX)),
     Some(File(Unclosed)), Some(UnreadableFile), Some(Dir),
     Some(Link(<<OUT, PartialFile(<<"s">>)>>)), Some(Link(<<R, PartialFile(<<"q">>)>>)),
     Some(Link(<<OUT, <<"n", "o", "n", "e">> >>))}
\* what may be at /r/_q.ntzr
EntriesQ == {None, Some(File(Greeting)), Some(File(BackToP))}
\* what /r/d may be
EntriesD == {"dir", "link", "link without file"}

At(path, entry) == IF entry.some THEN path :> entry.val ELSE <<>>

Fs(entry_p, entry_q, entry_d) ==
    (<<R>> :> Dir) @@ (<<OUT>> :> Dir) @@ (<<LR>> :> Link(<<R>>))
        @@ (<<OUT, PartialFile(<<"s">>)>> :> File(Secret))
        @@ At(<<R, PartialFile(<<"p">>)>>, entry_p)
        @@ At(<<R, PartialFile(<<"q">>)>>, entry_q)
        @@ (CASE entry_d = "dir" ->
                    (<<R, D>> :> Dir) @@ (<<R, D, PartialFile(<<"r">>)>> :> File(Greeting))
              [] entry_d = "link" ->
                    (<<R, D>> :> Link(<<OUT>>))
                        @@ (<<OUT, PartialFile(<<"r">>)>> :> File(Greeting))
              [] entry_d = "link without file" -> (<<R, D>> :> Link(<<OUT>>)))

IncludeData(a) ==
    Object((Id_name :> String(<<"A">>)) @@ (Id_other :> String(<<"B", "<">>))
               @@ (Id_xs :> Array(a)))

NameArg(path) == <<IncludeArg(Id_name, path)>>

IncludeTemplates ==
    {<<VariableNode(<<Id_name>>, "None", NoWs), TextNode(<<"-", ">">>),
       IncludeNode(Name_p, NameArg(<<Id_other>>), NoWs), TextNode(<<"-", ">">>),
       VariableNode(<<Id_name>>, "None", NoWs)>>,
     <<IncludeNode(Name_p, <<>>, NoWs), IncludeNode(Name_p, <<>>, NoWs)>>,
     <<EachBlock(<<Id_xs>>, Id_x, <<IncludeNode(Name_p, NameArg(<<Id_x>>), NoWs)>>,
                 NoWs, NoWs)>>,
     <<EachBlock(<<Id_xs>>, Id_x,
                 <<IncludeNode(Name_p, <<IncludeArg(Id_x, <<Id_other>>)>>, NoWs)>>,
                 NoWs, NoWs)>>,
     <<IncludeNode(Name_q, <<>>, NoWs)>>,
     <<IncludeNode(Name_p, NameArg(<<Id_u>>), NoWs)>>,
     \* a second argument whose path is the key of the first
     <<IncludeNode(Name_p, <<IncludeArg(Id_name, <<Id_other>>),
                             IncludeArg(Id_x, <<Id_name>>)>>, NoWs)>>,
     <<IncludeNode(Name_p, <<IncludeArg(Id_x, <<Id_other>>),
                             IncludeArg(Id_y, <<Id_x>>)>>, NoWs)>>}

IncludeScenarios ==
    {[template |-> t, data |-> IncludeData(<<String(<<"a">>), String(<<"b">>)>>),
      fs |-> Fs(entry_p, entry_q, "dir"), include_root |-> Some(<<R>>)] :
        t \in IncludeTemplates, entry_p \in EntriesP, entry_q \in EntriesQ}
    \cup
    {[template |-> <<IncludeNode(Name_dr, NameArg(<<Id_name>>), NoWs)>>,
      data |-> IncludeData(<<>>),
      fs |-> Fs(Some(File(Greeting)), None, entry_d),
      include_root |-> Some(<<R>>)] : entry_d \in EntriesD}
    \cup
    {[template |-> <<IncludeNode(Name_p, <<>>, NoWs)>>, data |-> IncludeData(<<>>),
      fs |-> Fs(Some(File(Greeting)), None, "dir"),
      include_root |-> configured] :
        configured \in {None, Some(<<LR>>), Some(<<R, D>>), Some(<<OUT>>),
                        Some(<< <<"m", "i", "s", "s", "i", "n", "g">> >>)}}
    \cup
    {[template |-> <<IncludeNode(name, <<>>, NoWs)>>, data |-> IncludeData(<<>>),
      fs |-> Fs(Some(File(Greeting)), None, "dir"),
      include_root |-> Some(<<R>>)] : name \in BadNames}

\* templates text {[ v ]} text, with and without trim markers on the tag, as
\* natsuzora_ast::parse builds them: the texts as written, the markers as flags
TextsBeforeTag == {<<"a", " ">>, <<" ">>, <<"a", "\n", " ">>, <<"a">>}
TextsAfterTag == {<<" ", "b">>, <<"\n", "b">>, <<" ", "\n", "b">>, <<" ">>}
TrimFlags == {WhitespaceControl(before, after) : before \in BOOLEAN, after \in BOOLEAN}

TrimTemplates ==
    {<<TextNode(before), VariableNode(<<Id_v>>, "None", flags), TextNode(after)>> :
        before \in TextsBeforeTag, after \in TextsAfterTag, flags \in TrimFlags}

TrimScenarios ==
    {[template |-> t, data |-> Object(Id_v :> String(<<"c">>)),
      fs |-> NoFs, include_root |-> None] : t \in TrimTemplates}

\* templates without literal text: two outputs side by side and an output in
\* a block, with and without trim markers, for a value that begins or ends
\* with a space
ValueTrimTemplates ==
    {<<VariableNode(<<Id_v>>, "None", first), UnsecureNode(<<Id_v>>, second)>> :
        first \in TrimFlags, second \in TrimFlags}
    \cup {<<IfBlock(<<Id_v>>, <<VariableNode(<<Id_v>>, "None", NoWs)>>, None,
                    open, None, close)>> : open \in TrimFlags, close \in TrimFlags}

ValueTrimScenarios ==
    {[template |-> t, data |-> Object(Id_v :> String(value)),
      fs |-> NoFs, include_root |-> None] :
        t \in ValueTrimTemplates, value \in {<<" ", "c">>, <<"c", " ">>}}

\* templates that use a name bound nowhere (u) or a member an object does not
\* have (o.u), one for each construct that evaluates a path
UndefinedPaths == {<<Id_u>>, <<Id_o, Id_u>>}

UndefinedTemplates ==
    {<<Yes, VariableNode(path, m, NoWs), No>> : path \in UndefinedPaths, m \in Modifiers}
    \cup {<<Yes, UnsecureNode(path, NoWs)>> : path \in UndefinedPaths}
    \cup {<<Yes, IfBlock(path, <<Yes>>, Some(<<No>>), NoWs, Some(NoWs), NoWs)>> :
                path \in UndefinedPaths}
    \cup {<<Yes, UnlessBlock(path, <<Yes>>, NoWs, NoWs)>> : path \in UndefinedPaths}
    \cup {<<Yes, EachBlock(path, Id_x, <<Yes>>, NoWs, NoWs)>> : path \in UndefinedPaths}
    \cup {<<EachBlock(<<Id_xs>>, Id_x,
                      <<VariableNode(<<Id_x>>, "None", NoWs),
                        IfBlock(<<Id_u>>, <<Yes>>, Some(<<No>>), NoWs, Some(NoWs), NoWs)>>,
                      NoWs, NoWs)>>}

UndefinedScenarios ==
    {[template |-> t,
      data |-> Object((Id_o :> Object(Id_k :> String(<<"a">>)))
                          @@ (Id_xs :> Array(<<String(<<"a">>)>>))),
      fs |-> NoFs, include_root |-> None] : t \in UndefinedTemplates}

Scenarios ==
    ValueScenarios \cup EachScenarios \cup IncludeScenarios \cup TrimScenarios
        \cup ValueTrimScenarios \cup UndefinedScenarios

(***************************************************************************)
(* The trees that tree_sitter hands to natsuzora_ast::parse.  The grammar  *)
(* is generated code outside this model; a tree is an input, written down  *)
(* for its source with the kinds of node that lib.rs reads.                *)
(***************************************************************************)
\* the sources of the tests of lib.rs
\* Hello, World!
parse_simple_text_tree ==
    Tree(<<"H", "e", "l", "l", "o", ",", " ", "W", "o", "r", "l", "d", "!">>,
         Node("template", 0, 13, 0, 0, <<
             Node("text", 0, 13, 0, 0, <<>>)>>))

\* Hello, {[ user.name ]}!
parse_variable_with_location_tree ==
    Tree(<<"H", "e", "l", "l", "o", ",", " ", "{", "[", " ", "u", "s", "e", "r", ".",
           "n", "a", "m", "e", " ", "]", "}", "!">>,
         Node("template", 0, 23, 0, 0, <<
             Node("text", 0, 7, 0, 0, <<>>),
             Node("variable", 7, 22, 0, 7, <<
                 Node("tag_open", 7, 9, 0, 7, <<>>),
                 Node("path", 10, 19, 0, 10, <<
                     Node("identifier", 10, 14, 0, 10, <<>>),
                     Anonymous(".", 14, 15, 0, 14),
                     Node("identifier", 15, 19, 0, 15, <<>>)>>),
                 Node("tag_close", 20, 22, 0, 20, <<>>)>>),
             Node("text", 22, 23, 0, 22, <<>>)>>))

\* {[ name? ]}
parse_nullable_tree ==
    Tree(<<"{", "[", " ", "n", "a", "m", "e", "?", " ", "]", "}">>,
         Node("template", 0, 11, 0, 0, <<
             Node("variable", 0, 11, 0, 0, <<
                 Node("tag_open", 0, 2, 0, 0, <<>>),
                 Node("path", 3, 7, 0, 3, <<
                     Node("identifier", 3, 7, 0, 3, <<>>)>>),
                 Node("modifier", 7, 8, 0, 7, <<>>),
                 Node("tag_close", 9, 11, 0, 9, <<>>)>>)>>))

\* {[ name! ]}
parse_required_tree ==
    Tree(<<"{", "[", " ", "n", "a", "m", "e", "!", " ", "]", "}">>,
         Node("template", 0, 11, 0, 0, <<
             Node("variable", 0, 11, 0, 0, <<
                 Node("tag_open", 0, 2, 0, 0, <<>>),
                 Node("path", 3, 7, 0, 3, <<
                     Node("identifier", 3, 7, 0, 3, <<>>)>>),
                 Node("modifier", 7, 8, 0, 7, <<>>),
                 Node("tag_close", 9, 11, 0, 9, <<>>)>>)>>))

\* {[- name -]}
parse_whitespace_control_tree ==
    Tree(<<"{", "[", "-", " ", "n", "a", "m", "e", " ", "-", "]", "}">>,
         Node("template", 0, 12, 0, 0, <<
             Node("variable", 0, 12, 0, 0, <<
                 Node("tag_open", 0, 3, 0, 0, <<>>),
                 Node("path", 4, 8, 0, 4, <<
                     Node("identifier", 4, 8, 0, 4, <<>>)>>),
                 Node("tag_close", 9, 12, 0, 9, <<>>)>>)>>))

\* {[#if show]}yes{[#else]}no{[/if]}
parse_if_block_with_else_tree ==
    Tree(<<"{", "[", "#", "i", "f", " ", "s", "h", "o", "w", "]", "}", "y", "e", "s",
           "{", "[", "#", "e", "l", "s", "e", "]", "}", "n", "o", "{", "[", "/", "i",
           "f", "]", "}">>,
         Node("template", 0, 33, 0, 0, <<
             Node("if_block", 0, 33, 0, 0, <<
                 Node("if_open", 0, 12, 0, 0, <<
                     Node("tag_open", 0, 2, 0, 0, <<>>),
                     Anonymous("#if", 2, 5, 0, 2),
                     Node("path", 6, 10, 0, 6, <<
                         Node("identifier", 6, 10, 0, 6, <<>>)>>),
                     Node("tag_close", 10, 12, 0, 10, <<>>)>>),
                 Node("text", 12, 15, 0, 12, <<>>),
                 Node("else_clause", 15, 26, 0, 15, <<
                     Node("else_open", 15, 24, 0, 15, <<
                         Node("tag_open", 15, 17, 0, 15, <<>>),
                         Anonymous("#else", 17, 22, 0, 17),
                         Node("tag_close", 22, 24, 0, 22, <<>>)>>),
                     Node("text", 24, 26, 0, 24, <<>>)>>),
                 Node("if_close", 26, 33, 0, 26, <<
                     Node("tag_open", 26, 28, 0, 26, <<>>),
                     Anonymous("/if", 28, 31, 0, 28),
                     Node("tag_close", 31, 33, 0, 31, <<>>)>>)>>)>>))

\* {[#each items as item]}{[ item.name ]}{[/each]}
parse_each_block_tree ==
    Tree(<<"{", "[", "#", "e", "a", "c", "h", " ", "i", "t", "e", "m", "s", " ", "a",
           "s", " ", "i", "t", "e", "m", "]", "}", "{", "[", " ", "i", "t", "e", "m",
           ".", "n", "a", "m", "e", " ", "]", "}", "{", "[", "/", "e", "a", "c", "h",
           "]", "}">>,
         Node("template", 0, 47, 0, 0, <<
             Node("each_block", 0, 47, 0, 0, <<
                 Node("each_open", 0, 23, 0, 0, <<
                     Node("tag_open", 0, 2, 0, 0, <<>>),
                     Anonymous("#each", 2, 7, 0, 2),
                     Node("path", 8, 13, 0, 8, <<
                         Node("identifier", 8, 13, 0, 8, <<>>)>>),
                     Anonymous("as", 14, 16, 0, 14),
                     Node("identifier", 17, 21, 0, 17, <<>>),
                     Node("tag_close", 21, 23, 0, 21, <<>>)>>),
                 Node("variable", 23, 38, 0, 23, <<
                     Node("tag_open", 23, 25, 0, 23, <<>>),
                     Node("path", 26, 35, 0, 26, <<
                         Node("identifier", 26, 30, 0, 26, <<>>),
                         Anonymous(".", 30, 31, 0, 30),
                         Node("identifier", 31, 35, 0, 31, <<>>)>>),
                     Node("tag_close", 36, 38, 0, 36, <<>>)>>),
                 Node("each_close", 38, 47, 0, 38, <<
                     Node("tag_open", 38, 40, 0, 38, <<>>),
                     Anonymous("/each", 40, 45, 0, 40),
                     Node("tag_close", 45, 47, 0, 45, <<>>)>>)>>)>>))

\* {[!include /shared/header title=page.title]}
parse_include_tree ==
    Tree(<<"{", "[", "!", "i", "n", "c", "l", "u", "d", "e", " ", "/", "s", "h", "a",
           "r", "e", "d", "/", "h", "e", "a", "d", "e", "r", " ", "t", "i", "t", "l",
           "e", "=", "p", "a", "g", "e", ".", "t", "i", "t", "l", "e", "]", "}">>,
         Node("template", 0, 44, 0, 0, <<
             Node("include", 0, 44, 0, 0, <<
                 Node("tag_open", 0, 2, 0, 0, <<>>),
                 Anonymous("!include", 2, 10, 0, 2),
                 Node("include_name", 11, 25, 0, 11, <<>>),
                 Node("include_args", 26, 42, 0, 26, <<
                     Node("include_arg", 26, 42, 0, 26, <<
                         Node("identifier", 26, 31, 0, 26, <<>>),
                         Anonymous("=", 31, 32, 0, 31),
                         Node("path", 32, 42, 0, 32, <<
                             Node("identifier", 32, 36, 0, 32, <<>>),
                             Anonymous(".", 36, 37, 0, 36),
                             Node("identifier", 37, 42, 0, 37, <<>>)>>)>>)>>),
                 Node("tag_close", 42, 44, 0, 42, <<>>)>>)>>))

\* literal: {[{]}
parse_delimiter_escape_tree ==
    Tree(<<"l", "i", "t", "e", "r", "a", "l", ":", " ", "{", "[", "{", "]", "}">>,
         Node("template", 0, 14, 0, 0, <<
             Node("text", 0, 9, 0, 0, <<>>),
             Node("delimiter_escape", 9, 14, 0, 9, <<>>)>>))

\* {[ invalid.. ]}
error_location_tree ==
    Tree(<<"{", "[", " ", "i", "n", "v", "a", "l", "i", "d", ".", ".", " ", "]", "}">>,
         Node("template", 0, 15, 0, 0, <<
             ErrorNode(0, 15, 0, 0, <<
                 Node("tag_open", 0, 2, 0, 0, <<>>),
                 Node("identifier", 3, 10, 0, 3, <<>>),
                 Anonymous(".", 10, 11, 0, 10),
                 Anonymous(".", 11, 12, 0, 11),
                 Node("tag_close", 13, 15, 0, 13, <<>>)>>)>>))

\* the other kinds of node, and the trim markers of a block
\* {[!unsecure x -]} {[ y ]}
unsecure_tree ==
    Tree(<<"{", "[", "!", "u", "n", "s", "e", "c", "u", "r", "e", " ", "x", " ", "-",
           "]", "}", " ", "{", "[", " ", "y", " ", "]", "}">>,
         Node("template", 0, 25, 0, 0, <<
             Node("unsecure_output", 0, 17, 0, 0, <<
                 Node("tag_open", 0, 2, 0, 0, <<>>),
                 Anonymous("!unsecure", 2, 11, 0, 2),
                 Node("path", 12, 13, 0, 12, <<
                     Node("identifier", 12, 13, 0, 12, <<>>)>>),
                 Node("tag_close", 14, 17, 0, 14, <<>>)>>),
             Node("text", 17, 18, 0, 17, <<>>),
             Node("variable", 18, 25, 0, 18, <<
                 Node("tag_open", 18, 20, 0, 18, <<>>),
                 Node("path", 21, 22, 0, 21, <<
                     Node("identifier", 21, 22, 0, 21, <<>>)>>),
                 Node("tag_close", 23, 25, 0, 23, <<>>)>>)>>))

\* a {[-#unless u]}n{[/unless -]} b
unless_tree ==
    Tree(<<"a", " ", "{", "[", "-", "#", "u", "n", "l", "e", "s", "s", " ", "u", "]",
           "}", "n", "{", "[", "/", "u", "n", "l", "e", "s", "s", " ", "-", "]", "}",
           " ", "b">>,
         Node("template", 0, 32, 0, 0, <<
             Node("text", 0, 2, 0, 0, <<>>),
             Node("unless_block", 2, 30, 0, 2, <<
                 Node("unless_open", 2, 16, 0, 2, <<
                     Node("tag_open", 2, 5, 0, 2, <<>>),
                     Anonymous("#unless", 5, 12, 0, 5),
                     Node("path", 13, 14, 0, 13, <<
                         Node("identifier", 13, 14, 0, 13, <<>>)>>),
                     Node("tag_close", 14, 16, 0, 14, <<>>)>>),
                 Node("text", 16, 17, 0, 16, <<>>),
                 Node("unless_close", 17, 30, 0, 17, <<
                     Node("tag_open", 17, 19, 0, 17, <<>>),
                     Anonymous("/unless", 19, 26, 0, 19),
                     Node("tag_close", 27, 30, 0, 27, <<>>)>>)>>),
             Node("text", 30, 32, 0, 30, <<>>)>>))

\* {[#if x -]} yes {[-#else -]} no {[-/if]}
if_trim_tree ==
    Tree(<<"{", "[", "#", "i", "f", " ", "x", " ", "-", "]", "}", " ", "y", "e", "s",
           " ", "{", "[", "-", "#", "e", "l", "s", "e", " ", "-", "]", "}", " ", "n",
           "o", " ", "{", "[", "-", "/", "i", "f", "]", "}">>,
         Node("template", 0, 40, 0, 0, <<
             Node("if_block", 0, 40, 0, 0, <<
                 Node("if_open", 0, 11, 0, 0, <<
                     Node("tag_open", 0, 2, 0, 0, <<>>),
                     Anonymous("#if", 2, 5, 0, 2),
                     Node("path", 6, 7, 0, 6, <<
                         Node("identifier", 6, 7, 0, 6, <<>>)>>),
                     Node("tag_close", 8, 11, 0, 8, <<>>)>>),
                 Node("text", 11, 16, 0, 11, <<>>),
                 Node("else_clause", 16, 32, 0, 16, <<
                     Node("else_open", 16, 28, 0, 16, <<
                         Node("tag_open", 16, 19, 0, 16, <<>>),
                         Anonymous("#else", 19, 24, 0, 19),
                         Node("tag_close", 25, 28, 0, 25, <<>>)>>),
                     Node("text", 28, 32, 0, 28, <<>>)>>),
                 Node("if_close", 32, 40, 0, 32, <<
                     Node("tag_open", 32, 35, 0, 32, <<>>),
                     Anonymous("/if", 35, 38, 0, 35),
                     Node("tag_close", 38, 40, 0, 38, <<>>)>>)>>)>>))

\* {[#each xs as v -]} {[ v ]} {[-/each]}
each_trim_tree ==
    Tree(<<"{", "[", "#", "e", "a", "c", "h", " ", "x", "s", " ", "a", "s", " ", "v",
           " ", "-", "]", "}", " ", "{", "[", " ", "v", " ", "]", "}", " ", "{", "[",
           "-", "/", "e", "a", "c", "h", "]", "}">>,
         Node("template", 0, 38, 0, 0, <<
             Node("each_block", 0, 38, 0, 0, <<
                 Node("each_open", 0, 19, 0, 0, <<
                     Node("tag_open", 0, 2, 0, 0, <<>>),
                     Anonymous("#each", 2, 7, 0, 2),
                     Node("path", 8, 10, 0, 8, <<
                         Node("identifier", 8, 10, 0, 8, <<>>)>>),
                     Anonymous("as", 11, 13, 0, 11),
                     Node("identifier", 14, 15, 0, 14, <<>>),
                     Node("tag_close", 16, 19, 0, 16, <<>>)>>),
                 Node("text", 19, 20, 0, 19, <<>>),
                 Node("variable", 20, 27, 0, 20, <<
                     Node("tag_open", 20, 22, 0, 20, <<>>),
                     Node("path", 23, 24, 0, 23, <<
                         Node("identifier", 23, 24, 0, 23, <<>>)>>),
                     Node("tag_close", 25, 27, 0, 25, <<>>)>>),
                 Node("text", 27, 28, 0, 27, <<>>),
                 Node("each_close", 28, 38, 0, 28, <<
                     Node("tag_open", 28, 31, 0, 28, <<>>),
                     Anonymous("/each", 31, 36, 0, 31),
                     Node("tag_close", 36, 38, 0, 36, <<>>)>>)>>)>>))

\* a {[-!include /p name=x other=y -]} b
include_trim_tree ==
    Tree(<<"a", " ", "{", "[", "-", "!", "i", "n", "c", "l", "u", "d", "e", " ", "/",
           "p", " ", "n", "a", "m", "e", "=", "x", " ", "o", "t", "h", "e", "r", "=",
           "y", " ", "-", "]", "}", " ", "b">>,
         Node("template", 0, 37, 0, 0, <<
             Node("text", 0, 2, 0, 0, <<>>),
             Node("include", 2, 35, 0, 2, <<
                 Node("tag_open", 2, 5, 0, 2, <<>>),
                 Anonymous("!include", 5, 13, 0, 5),
                 Node("include_name", 14, 16, 0, 14, <<>>),
                 Node("include_args", 17, 31, 0, 17, <<
                     Node("include_arg", 17, 23, 0, 17, <<
                         Node("identifier", 17, 21, 0, 17, <<>>),
                         Anonymous("=", 21, 22, 0, 21),
                         Node("path", 22, 23, 0, 22, <<
                             Node("identifier", 22, 23, 0, 22, <<>>)>>)>>),
                     Node("include_arg", 24, 31, 0, 24, <<
                         Node("identifier", 24, 29, 0, 24, <<>>),
                         Anonymous("=", 29, 30, 0, 29),
                         Node("path", 30, 31, 0, 30, <<
                             Node("identifier", 30, 31, 0, 30, <<>>)>>)>>)>>),
                 Node("tag_close", 32, 35, 0, 32, <<>>)>>),
             Node("text", 35, 37, 0, 35, <<>>)>>))

\* a\n  {[ x ]}\n{[ y.z ]}
lines_tree ==
    Tree(<<"a", "\n", " ", " ", "{", "[", " ", "x", " ", "]", "}", "\n", "{", "[", " ",
           "y", ".", "z", " ", "]", "}">>,
         Node("template", 0, 21, 0, 0, <<
             Node("text", 0, 4, 0, 0, <<>>),
             Node("variable", 4, 11, 1, 2, <<
                 Node("tag_open", 4, 6, 1, 2, <<>>),
                 Node("path", 7, 8, 1, 5, <<
                     Node("identifier", 7, 8, 1, 5, <<>>)>>),
                 Node("tag_close", 9, 11, 1, 7, <<>>)>>),
             Node("text", 11, 12, 1, 9, <<>>),
             Node("variable", 12, 21, 2, 0, <<
                 Node("tag_open", 12, 14, 2, 0, <<>>),
                 Node("path", 15, 18, 2, 3, <<
                     Node("identifier", 15, 16, 2, 3, <<>>),
                     Anonymous(".", 16, 17, 2, 4),
                     Node("identifier", 17, 18, 2, 5, <<>>)>>),
                 Node("tag_close", 19, 21, 2, 7, <<>>)>>)>>))

\* identifiers that validate_identifier rejects, and a tree with a
\* missing node
\* {[ x.true ]}
reserved_path_tree ==
    Tree(<<"{", "[", " ", "x", ".", "t", "r", "u", "e", " ", "]", "}">>,
         Node("template", 0, 12, 0, 0, <<
             Node("variable", 0, 12, 0, 0, <<
                 Node("tag_open", 0, 2, 0, 0, <<>>),
                 Node("path", 3, 9, 0, 3, <<
                     Node("identifier", 3, 4, 0, 3, <<>>),
                     Anonymous(".", 4, 5, 0, 4),
                     Node("identifier", 5, 9, 0, 5, <<>>)>>),
                 Node("tag_close", 10, 12, 0, 10, <<>>)>>)>>))

\* {[ _x ]}
underscore_path_tree ==
    Tree(<<"{", "[", " ", "_", "x", " ", "]", "}">>,
         Node("template", 0, 8, 0, 0, <<
             Node("variable", 0, 8, 0, 0, <<
                 Node("tag_open", 0, 2, 0, 0, <<>>),
                 Node("path", 3, 5, 0, 3, <<
                     Node("identifier", 3, 5, 0, 3, <<>>)>>),
                 Node("tag_close", 6, 8, 0, 6, <<>>)>>)>>))

\* {[#each xs as in]}-{[/each]}
reserved_item_tree ==
    Tree(<<"{", "[", "#", "e", "a", "c", "h", " ", "x", "s", " ", "a", "s", " ", "i",
           "n", "]", "}", "-", "{", "[", "/", "e", "a", "c", "h", "]", "}">>,
         Node("template", 0, 28, 0, 0, <<
             Node("each_block", 0, 28, 0, 0, <<
                 Node("each_open", 0, 18, 0, 0, <<
                     Node("tag_open", 0, 2, 0, 0, <<>>),
                     Anonymous("#each", 2, 7, 0, 2),
                     Node("path", 8, 10, 0, 8, <<
                         Node("identifier", 8, 10, 0, 8, <<>>)>>),
                     Anonymous("as", 11, 13, 0, 11),
                     Node("identifier", 14, 16, 0, 14, <<>>),
                     Node("tag_close", 16, 18, 0, 16, <<>>)>>),
                 Node("text", 18, 19, 0, 18, <<>>),
                 Node("each_close", 19, 28, 0, 19, <<
                     Node("tag_open", 19, 21, 0, 19, <<>>),
                     Anonymous("/each", 21, 26, 0, 21),
                     Node("tag_close", 26, 28, 0, 26, <<>>)>>)>>)>>))

\* {[!include /p of=x]}
reserved_key_tree ==
    Tree(<<"{", "[", "!", "i", "n", "c", "l", "u", "d", "e", " ", "/", "p", " ", "o",
           "f", "=", "x", "]", "}">>,
         Node("template", 0, 20, 0, 0, <<
             Node("include", 0, 20, 0, 0, <<
                 Node("tag_open", 0, 2, 0, 0, <<>>),
                 Anonymous("!include", 2, 10, 0, 2),
                 Node("include_name", 11, 13, 0, 11, <<>>),
                 Node("include_args", 14, 18, 0, 14, <<
                     Node("include_arg", 14, 18, 0, 14, <<
                         Node("identifier", 14, 16, 0, 14, <<>>),
                         Anonymous("=", 16, 17, 0, 16),
                         Node("path", 17, 18, 0, 17, <<
                             Node("identifier", 17, 18, 0, 17, <<>>)>>)>>)>>),
                 Node("tag_close", 18, 20, 0, 18, <<>>)>>)>>))

\* {[!include /a/_p]}
underscore_name_tree ==
    Tree(<<"{", "[", "!", "i", "n", "c", "l", "u", "d", "e", " ", "/", "a", "/", "_",
           "p", "]", "}">>,
         Node("template", 0, 18, 0, 0, <<
             Node("include", 0, 18, 0, 0, <<
                 Node("tag_open", 0, 2, 0, 0, <<>>),
                 Anonymous("!include", 2, 10, 0, 2),
                 Node("include_name", 11, 16, 0, 11, <<>>),
                 Node("tag_close", 16, 18, 0, 16, <<>>)>>)>>))

\* {[#if x]}{[#else]}{[ null ]}{[/if]}
reserved_in_else_tree ==
    Tree(<<"{", "[", "#", "i", "f", " ", "x", "]", "}", "{", "[", "#", "e", "l", "s",
           "e", "]", "}", "{", "[", " ", "n", "u", "l", "l", " ", "]", "}", "{", "[",
           "/", "i", "f", "]", "}">>,
         Node("template", 0, 35, 0, 0, <<
             Node("if_block", 0, 35, 0, 0, <<
                 Node("if_open", 0, 9, 0, 0, <<
                     Node("tag_open", 0, 2, 0, 0, <<>>),
                     Anonymous("#if", 2, 5, 0, 2),
                     Node("path", 6, 7, 0, 6, <<
                         Node("identifier", 6, 7, 0, 6, <<>>)>>),
                     Node("tag_close", 7, 9, 0, 7, <<>>)>>),
                 Node("else_clause", 9, 28, 0, 9, <<
                     Node("else_open", 9, 18, 0, 9, <<
                         Node("tag_open", 9, 11, 0, 9, <<>>),
                         Anonymous("#else", 11, 16, 0, 11),
                         Node("tag_close", 16, 18, 0, 16, <<>>)>>),
                     Node("variable", 18, 28, 0, 18, <<
                         Node("tag_open", 18, 20, 0, 18, <<>>),
                         Node("path", 21, 25, 0, 21, <<
                             Node("identifier", 21, 25, 0, 21, <<>>)>>),
                         Node("tag_close", 26, 28, 0, 26, <<>>)>>)>>),
                 Node("if_close", 28, 35, 0, 28, <<
                     Node("tag_open", 28, 30, 0, 28, <<>>),
                     Anonymous("/if", 30, 33, 0, 30),
                     Node("tag_close", 33, 35, 0, 33, <<>>)>>)>>)>>))

\* a{[ x
unclosed_tree ==
    Tree(<<"a", "{", "[", " ", "x">>,
         Node("template", 0, 5, 0, 0, <<
             Node("text", 0, 1, 0, 0, <<>>),
             Node("variable", 1, 5, 0, 1, <<
                 Node("tag_open", 1, 3, 0, 1, <<>>),
                 Node("path", 4, 5, 0, 4, <<
                     Node("identifier", 4, 5, 0, 4, <<>>)>>),
                 MissingNode("tag_close", 5, 0, 5)>>)>>))

\* sources with a comment tag, and each without its comment
\* Hello{[% comment ]}World
comment_ignored_tree ==
    Tree(<<"H", "e", "l", "l", "o", "{", "[", "%", " ", "c", "o", "m", "m", "e", "n",
           "t", " ", "]", "}", "W", "o", "r", "l", "d">>,
         Node("template", 0, 24, 0, 0, <<
             Node("text", 0, 5, 0, 0, <<>>),
             Node("comment", 5, 19, 0, 5, <<>>),
             Node("text", 19, 24, 0, 19, <<>>)>>))

\* HelloWorld
comment_ignored_deleted_tree ==
    Tree(<<"H", "e", "l", "l", "o", "W", "o", "r", "l", "d">>,
         Node("template", 0, 10, 0, 0, <<
             Node("text", 0, 10, 0, 0, <<>>)>>))

\* {[ x -]}{[% c ]}\nz
comment_after_trim_tree ==
    Tree(<<"{", "[", " ", "x", " ", "-", "]", "}", "{", "[", "%", " ", "c", " ", "]",
           "}", "\n", "z">>,
         Node("template", 0, 18, 0, 0, <<
             Node("variable", 0, 8, 0, 0, <<
                 Node("tag_open", 0, 2, 0, 0, <<>>),
                 Node("path", 3, 4, 0, 3, <<
                     Node("identifier", 3, 4, 0, 3, <<>>)>>),
                 Node("tag_close", 5, 8, 0, 5, <<>>)>>),
             Node("comment", 8, 16, 0, 8, <<>>),
             Node("text", 16, 18, 0, 16, <<>>)>>))

\* {[ x -]}\nz
comment_after_trim_deleted_tree ==
    Tree(<<"{", "[", " ", "x", " ", "-", "]", "}", "\n", "z">>,
         Node("template", 0, 10, 0, 0, <<
             Node("variable", 0, 8, 0, 0, <<
                 Node("tag_open", 0, 2, 0, 0, <<>>),
                 Node("path", 3, 4, 0, 3, <<
                     Node("identifier", 3, 4, 0, 3, <<>>)>>),
                 Node("tag_close", 5, 8, 0, 5, <<>>)>>),
             Node("text", 8, 10, 0, 8, <<>>)>>))

\* {[ x -]}  {[% c ]}\nz
comment_in_blanks_tree ==
    Tree(<<"{", "[", " ", "x", " ", "-", "]", "}", " ", " ", "{", "[", "%", " ", "c",
           " ", "]", "}", "\n", "z">>,
         Node("template", 0, 20, 0, 0, <<
             Node("variable", 0, 8, 0, 0, <<
                 Node("tag_open", 0, 2, 0, 0, <<>>),
                 Node("path", 3, 4, 0, 3, <<
                     Node("identifier", 3, 4, 0, 3, <<>>)>>),
                 Node("tag_close", 5, 8, 0, 5, <<>>)>>),
             Node("text", 8, 10, 0, 8, <<>>),
             Node("comment", 10, 18, 0, 10, <<>>),
             Node("text", 18, 20, 0, 18, <<>>)>>))

\* {[ x -]}  \nz
comment_in_blanks_deleted_tree ==
    Tree(<<"{", "[", " ", "x", " ", "-", "]", "}", " ", " ", "\n", "z">>,
         Node("template", 0, 12, 0, 0, <<
             Node("variable", 0, 8, 0, 0, <<
                 Node("tag_open", 0, 2, 0, 0, <<>>),
                 Node("path", 3, 4, 0, 3, <<
                     Node("identifier", 3, 4, 0, 3, <<>>)>>),
                 Node("tag_close", 5, 8, 0, 5, <<>>)>>),
             Node("text", 8, 12, 0, 8, <<>>)>>))

\* x  {[% c ]}{[- y ]}
comment_before_trim_tree ==
    Tree(<<"x", " ", " ", "{", "[", "%", " ", "c", " ", "]", "}", "{", "[", "-", " ",
           "y", " ", "]", "}">>,
         Node("template", 0, 19, 0, 0, <<
             Node("text", 0, 3, 0, 0, <<>>),
             Node("comment", 3, 11, 0, 3, <<>>),
             Node("variable", 11, 19, 0, 11, <<
                 Node("tag_open", 11, 14, 0, 11, <<>>),
                 Node("path", 15, 16, 0, 15, <<
                     Node("identifier", 15, 16, 0, 15, <<>>)>>),
                 Node("tag_close", 17, 19, 0, 17, <<>>)>>)>>))

\* x  {[- y ]}
comment_before_trim_deleted_tree ==
    Tree(<<"x", " ", " ", "{", "[", "-", " ", "y", " ", "]", "}">>,
         Node("template", 0, 11, 0, 0, <<
             Node("text", 0, 3, 0, 0, <<>>),
             Node("variable", 3, 11, 0, 3, <<
                 Node("tag_open", 3, 6, 0, 3, <<>>),
                 Node("path", 7, 8, 0, 7, <<
                     Node("identifier", 7, 8, 0, 7, <<>>)>>),
                 Node("tag_close", 9, 11, 0, 9, <<>>)>>)>>))

\* {[% c ]}{[ x ]}
comment_first_tree ==
    Tree(<<"{", "[", "%", " ", "c", " ", "]", "}", "{", "[", " ", "x", " ", "]", "}">>,
         Node("template", 0, 15, 0, 0, <<
             Node("comment", 0, 8, 0, 0, <<>>),
             Node("variable", 8, 15, 0, 8, <<
                 Node("tag_open", 8, 10, 0, 8, <<>>),
                 Node("path", 11, 12, 0, 11, <<
                     Node("identifier", 11, 12, 0, 11, <<>>)>>),
                 Node("tag_close", 13, 15, 0, 13, <<>>)>>)>>))

\* {[ x ]}
comment_first_deleted_tree ==
    Tree(<<"{", "[", " ", "x", " ", "]", "}">>,
         Node("template", 0, 7, 0, 0, <<
             Node("variable", 0, 7, 0, 0, <<
                 Node("tag_open", 0, 2, 0, 0, <<>>),
                 Node("path", 3, 4, 0, 3, <<
                     Node("identifier", 3, 4, 0, 3, <<>>)>>),
                 Node("tag_close", 5, 7, 0, 5, <<>>)>>)>>))

\* x {[-% c -]} z
comment_trimming_tree ==
    Tree(<<"x", " ", "{", "[", "-", "%", " ", "c", " ", "-", "]", "}", " ", "z">>,
         Node("template", 0, 14, 0, 0, <<
             Node("text", 0, 2, 0, 0, <<>>),
             Node("comment", 2, 12, 0, 2, <<>>),
             Node("text", 12, 14, 0, 12, <<>>)>>))

\* x  z
comment_trimming_deleted_tree ==
    Tree(<<"x", " ", " ", "z">>,
         Node("template", 0, 4, 0, 0, <<
             Node("text", 0, 4, 0, 0, <<>>)>>))

\* x {[-% c ]}{[ y ]}
comment_left_trimming_tree ==
    Tree(<<"x", " ", "{", "[", "-", "%", " ", "c", " ", "]", "}", "{", "[", " ", "y",
           " ", "]", "}">>,
         Node("template", 0, 18, 0, 0, <<
             Node("text", 0, 2, 0, 0, <<>>),
             Node("comment", 2, 11, 0, 2, <<>>),
             Node("variable", 11, 18, 0, 11, <<
                 Node("tag_open", 11, 13, 0, 11, <<>>),
                 Node("path", 14, 15, 0, 14, <<
                     Node("identifier", 14, 15, 0, 14, <<>>)>>),
                 Node("tag_close", 16, 18, 0, 16, <<>>)>>)>>))

\* x {[ y ]}
comment_left_trimming_deleted_tree ==
    Tree(<<"x", " ", "{", "[", " ", "y", " ", "]", "}">>,
         Node("template", 0, 9, 0, 0, <<
             Node("text", 0, 2, 0, 0, <<>>),
             Node("variable", 2, 9, 0, 2, <<
                 Node("tag_open", 2, 4, 0, 2, <<>>),
                 Node("path", 5, 6, 0, 5, <<
                     Node("identifier", 5, 6, 0, 5, <<>>)>>),
                 Node("tag_close", 7, 9, 0, 7, <<>>)>>)>>))

\* {[ x ]}{[% c -]} z
comment_right_trimming_tree ==
    Tree(<<"{", "[", " ", "x", " ", "]", "}", "{", "[", "%", " ", "c", " ", "-", "]",
           "}", " ", "z">>,
         Node("template", 0, 18, 0, 0, <<
             Node("variable", 0, 7, 0, 0, <<
                 Node("tag_open", 0, 2, 0, 0, <<>>),
                 Node("path", 3, 4, 0, 3, <<
                     Node("identifier", 3, 4, 0, 3, <<>>)>>),
                 Node("tag_close", 5, 7, 0, 5, <<>>)>>),
             Node("comment", 7, 16, 0, 7, <<>>),
             Node("text", 16, 18, 0, 16, <<>>)>>))

\* {[ x ]} z
comment_right_trimming_deleted_tree ==
    Tree(<<"{", "[", " ", "x", " ", "]", "}", " ", "z">>,
         Node("template", 0, 9, 0, 0, <<
             Node("variable", 0, 7, 0, 0, <<
                 Node("tag_open", 0, 2, 0, 0, <<>>),
                 Node("path", 3, 4, 0, 3, <<
                     Node("identifier", 3, 4, 0, 3, <<>>)>>),
                 Node("tag_close", 5, 7, 0, 5, <<>>)>>),
             Node("text", 7, 9, 0, 7, <<>>)>>))

\* the trees handed to natsuzora_ast::parse
Trees ==
    {parse_simple_text_tree, parse_variable_with_location_tree, parse_nullable_tree,
       parse_required_tree, parse_whitespace_control_tree,
       parse_if_block_with_else_tree, parse_each_block_tree, parse_include_tree,
       parse_delimiter_escape_tree, error_location_tree, unsecure_tree, unless_tree,
       if_trim_tree, each_trim_tree, include_trim_tree, lines_tree,
       reserved_path_tree, underscore_path_tree, reserved_item_tree,
       reserved_key_tree, underscore_name_tree, reserved_in_else_tree, unclosed_tree,
       comment_ignored_tree, comment_ignored_deleted_tree, comment_after_trim_tree,
       comment_after_trim_deleted_tree, comment_in_blanks_tree,
       comment_in_blanks_deleted_tree, comment_before_trim_tree,
       comment_before_trim_deleted_tree, comment_first_tree,
       comment_first_deleted_tree, comment_trimming_tree,
       comment_trimming_deleted_tree, comment_left_trimming_tree,
       comment_left_trimming_deleted_tree, comment_right_trimming_tree,
       comment_right_trimming_deleted_tree}

(***************************************************************************)
(* The hand-written front end: source -> tokenize -> process -> parse.     *)
(* lib.rs does not declare lexer.rs, token_processor.rs and parser.rs as   *)
(* modules, so what they return is never rendered: the template of a       *)
(* Natsuzora comes from natsuzora_ast::parse below.                        *)
(***************************************************************************)
Tokenize ==
    /\ pc = "source"
    /\ LET lexed == tokenize(source.val)
       IN  /\ tokens' = Some(lexed)
           /\ IF lexed.ok
              THEN pc' = "tokens" /\ UNCHANGED parsed
              ELSE pc' = "rejected" /\ parsed' = Some(lexed)
    /\ UNCHANGED <<source, processed, tree, built, previous, template>>
    /\ UNCHANGED render_state

Process ==
    /\ pc = "tokens"
    /\ LET stripped == process(tokens.val.val)
       IN  /\ processed' = Some(stripped)
           /\ IF stripped.ok
              THEN pc' = "processed" /\ UNCHANGED parsed
              ELSE pc' = "rejected" /\ parsed' = Some(stripped)
    /\ UNCHANGED <<source, tokens, tree, built, previous, template>>
    /\ UNCHANGED render_state

Parse ==
    /\ pc = "processed"
    /\ parsed' = Some(parse(processed.val.val))
    /\ pc' = IF parsed'.val.ok THEN "parsed" ELSE "rejected"
    /\ UNCHANGED <<source, tokens, processed, tree, built, previous, template>>
    /\ UNCHANGED render_state

(***************************************************************************)
(* Natsuzora::parse: the template is what natsuzora_ast::parse builds from *)
(* the tree of the source.  Natsuzora::parse_with_includes does the same   *)
(* and keeps an include_root, as in the scenarios with partials.           *)
(***************************************************************************)
NatsuzoraParse ==
    /\ pc = "tree"
    /\ built' = Some(Natsuzora_parse(ast_parse(tree.val)))
    /\ IF built'.val.ok
       THEN pc' = "idle" /\ template' = built'.val.val.template.nodes
       ELSE pc' = "rejected" /\ UNCHANGED template
    /\ UNCHANGED <<source, tokens, processed, parsed, tree, previous>>
    /\ UNCHANGED render_state

(***************************************************************************)
(* The author deletes one comment tag, written {[% ... ]} with or without  *)
(* trim markers, from the source and hands the new text to                 *)
(* Natsuzora::parse.  A comment is a node of kind comment of the tree.     *)
(***************************************************************************)
RECURSIVE CommentsBelow(_)
\* the comment nodes of a tree
CommentsBelow(node) ==
    (IF node.kind = "comment" THEN {node} ELSE {})
        \cup UNION {CommentsBelow(node.children[i]) : i \in 1..Len(node.children)}

Without(text, comment) ==
    SubSeq(text, 1, comment.start_byte) \o SubSeq(text, comment.end_byte + 1, Len(text))

DeleteComment ==
    /\ tree.some /\ ~previous.some
    /\ pc = "rejected" \/ (pc = "idle" /\ results # <<>>)
    /\ \E comment \in CommentsBelow(tree.val.root_node) :
       \E shorter \in Trees :
        /\ shorter.source = Without(tree.val.source, comment)
        /\ previous' = Some([tree |-> tree.val, comment |-> comment,
                             built |-> built.val, results |-> results])
        /\ tree' = Some(shorter)
    /\ built' = None
    /\ template' = <<>>
    /\ pc' = "tree"
    /\ loader_root' = None /\ cache' = <<>> /\ include_stack' = <<>>
    /\ root' = <<>> /\ local_stack' = <<>> /\ frames' = <<>>
    /\ results' = <<>> /\ trace' = <<>>
    /\ UNCHANGED <<source, tokens, processed, parsed, data, fs, include_root>>

(***************************************************************************)
(* Sources handed to the hand-written front end                            *)
(***************************************************************************)
\* {"x": "a", "y": "b", "xs": ["a"]}
SourceData ==
    Object((Id_x :> String(<<"a">>)) @@ (Id_y :> String(<<"b">>))
           @@ (Id_xs :> Array(<<String(<<"a">>)>>)))

\* a comment tag between what stands before and after it
CommentBefore ==
    { <<>>,   \* the empty text
      <<"x">>,   \* x
      <<" ">>,   \*  
      <<"\n", " ">>,   \* \n 
      <<"{">>,   \* {
      <<"{", "[", " ", "x", " ", "]", "}">>,   \* {[ x ]}
      <<"{", "[", " ", "x", " ", "-", "]", "}">>,   \* {[ x -]}
      <<"{", "[", " ", "x", " ", "-", "]", "}", " ">> }   \* {[ x -]} 

Comments ==
    { <<"{", "[", "%", " ", "c", " ", "]", "}">>,   \* {[% c ]}
      <<"{", "[", "-", "%", " ", "c", " ", "]", "}">>,   \* {[-% c ]}
      <<"{", "[", "%", " ", "c", " ", "-", "]", "}">>,   \* {[% c -]}
      <<"{", "[", "-", "%", " ", "c", " ", "-", "]", "}">> }   \* {[-% c -]}

CommentAfter ==
    { <<>>,   \* the empty text
      <<" ">>,   \*  
      <<"\n">>,   \* \n
      <<" ", "\n", "z">>,   \*  \nz
      <<"[", " ", "y", " ", "]", "}">>,   \* [ y ]}
      <<"{", "[", " ", "y", " ", "]", "}">>,   \* {[ y ]}
      <<"{", "[", "-", " ", "y", " ", "]", "}">>,   \* {[- y ]}
      <<" ", "{", "[", "-", " ", "y", " ", "]", "}">> }   \*  {[- y ]}

CommentSources ==
    {before \o comment \o after :
        before \in CommentBefore, comment \in Comments, after \in CommentAfter}

\* texts with escape sequences: up to MaxPieces pieces in a row
MaxPieces == 3

EscapePieces ==
    { <<"a">>,   \* a
      <<"{", "[", "{", "]", "}">>,   \* {[{]}
      <<"{">>,   \* {
      <<"[">>,   \* [
      <<"]", "}">>,   \* ]}
      <<"{", "[", " ", "x", " ", "]", "}">> }   \* {[ x ]}

RECURSIVE PiecesOf(_, _)
\* the concatenations of n pieces
PiecesOf(pieces, n) ==
    IF n = 0 THEN {<<>>}
    ELSE {piece \o rest : piece \in pieces, rest \in PiecesOf(pieces, n - 1)}

EscapeSources == UNION {PiecesOf(EscapePieces, n) : n \in 1..MaxPieces}

\* block tags and a text, in any order
BlockPieces ==
    { <<"a">>,   \* a
      <<"{", "[", "#", "i", "f", " ", "x", "]", "}">>,   \* {[#if x]}
      <<"{", "[", "#", "e", "l", "s", "e", "]", "}">>,   \* {[#else]}
      <<"{", "[", "/", "i", "f", "]", "}">>,   \* {[/if]}
      <<"{", "[", "#", "u", "n", "l", "e", "s", "s", " ", "x", "]", "}">>,   \* {[#unless x]}
      <<"{", "[", "/", "u", "n", "l", "e", "s", "s", "]", "}">>,   \* {[/unless]}
      <<"{", "[", "#", "e", "a", "c", "h", " ", "x", "s", " ", "a", "s", " ", "i", "]", "}">>,   \* {[#each xs as i]}
      <<"{", "[", "/", "e", "a", "c", "h", "]", "}">> }   \* {[/each]}

BlockSources == UNION {PiecesOf(BlockPieces, n) : n \in 1..MaxPieces}

\* sources that end inside a tag
TruncatedSources ==
    { <<"{", "[", " ", "x">>,   \* {[ x
      <<"{", "[", "#", "i", "f", " ", "x">>,   \* {[#if x
      <<"{", "[", "#", "i", "f", " ", "x", "]", "}", "{", "[", "/", "i", "f">>,   \* {[#if x]}{[/if
      <<"{", "[", "!", "u", "n", "s", "e", "c", "u", "r", "e", " ", "x">>,   \* {[!unsecure x
      <<"a", "{", "[">> }   \* a{[

\* a text after a tag with a trailing trim marker
TrimAfter ==
    { <<>>,   \* the empty text
      <<" ">>,   \*  
      <<" ", "\n">>,   \*  \n
      <<" ", "\n", "z">>,   \*  \nz
      <<"\n", "\n", "z">>,   \* \n\nz
      <<" ", "\r", "\n", "z">>,   \*  \r\nz
      <<"\r", "\n", "z">>,   \* \r\nz
      <<"\r", "z">>,   \* \rz
      <<"\r", "\r", "z">>,   \* \r\rz
      <<"\n", "\r", "z">>,   \* \n\rz
      <<" ", "z">>,   \*  z
      <<"z">>,   \* z
      <<"\t", " ", "\n", " ", "z">> }   \* \t \n z

RightTrimSources ==
    {before \o <<"{", "[", " ", "y", " ", "-", "]", "}">> \o after :
        before \in {<<>>, <<"a">>}, after \in TrimAfter}

\* a tag with a leading trim marker after a text
TrimBefore ==
    { <<>>,   \* the empty text
      <<"a">>,   \* a
      <<"a", "\n">>,   \* a\n
      <<"a", "\r">>,   \* a\r
      <<"{", "[", " ", "x", " ", "]", "}">>,   \* {[ x ]}
      <<"{", "[", " ", "x", " ", "]", "}", "\n">> }   \* {[ x ]}\n

TrimBlanks ==
    { <<>>,   \* the empty text
      <<" ">>,   \*  
      <<" ", "\t">>,   \*  \t
      <<"b", " ">>,   \* b 
      <<" ", "b">>,   \*  b
      <<"\n", " ">>,   \* \n 
      <<" ", "\n">> }   \*  \n

LeftTrimSources ==
    {before \o blanks \o <<"{", "[", "-", " ", "y", " ", "]", "}">> :
        before \in TrimBefore, blanks \in TrimBlanks}

\* two blocks, one inside the other, with any closing keywords and #else in
\* the inner body, after the inner block, or nowhere
BlockOpenTags ==
    { <<"{", "[", "#", "i", "f", " ", "x", "]", "}">>,   \* {[#if x]}
      <<"{", "[", "#", "u", "n", "l", "e", "s", "s", " ", "x", "]", "}">>,   \* {[#unless x]}
      <<"{", "[", "#", "e", "a", "c", "h", " ", "x", "s", " ", "a", "s", " ", "i", "]", "}">> }   \* {[#each xs as i]}

BlockCloseTags ==
    { <<"{", "[", "/", "i", "f", "]", "}">>,   \* {[/if]}
      <<"{", "[", "/", "u", "n", "l", "e", "s", "s", "]", "}">>,   \* {[/unless]}
      <<"{", "[", "/", "e", "a", "c", "h", "]", "}">> }   \* {[/each]}

ElseTag == <<"{", "[", "#", "e", "l", "s", "e", "]", "}">>   \* {[#else]}

NestedSources ==
    {outer \o inner \o inside \o inner_close \o after \o outer_close :
        outer \in BlockOpenTags, inner \in BlockOpenTags,
        inside \in {<<>>, <<"a">>, ElseTag}, after \in {<<>>, ElseTag},
        inner_close \in BlockCloseTags, outer_close \in BlockCloseTags}

\* tags with a place for whitespace between the tag open and what follows
\* it: the text up to the place and the text after it
MarkerPlaces ==
    { [before |-> <<"{", "[">>,
       after |-> <<"#", "i", "f", " ", "x", "]", "}", "a", "{", "[", "/", "i", "f", "]", "}">>],   \* {[ #if x]}a{[/if]}
      [before |-> <<"{", "[">>,
       after |-> <<"#", "e", "a", "c", "h", " ", "x", "s", " ", "a", "s", " ", "i", "]", "}", "a", "{", "[", "/", "e", "a", "c", "h", "]", "}">>],   \* {[ #each xs as i]}a{[/each]}
      [before |-> <<"{", "[", "#", "i", "f", " ", "x", "]", "}", "a", "{", "[">>,
       after |-> <<"#", "e", "l", "s", "e", "]", "}", "b", "{", "[", "/", "i", "f", "]", "}">>],   \* {[#if x]}a{[ #else]}b{[/if]}
      [before |-> <<"{", "[", "#", "i", "f", " ", "x", "]", "}", "a", "{", "[">>,
       after |-> <<"/", "i", "f", "]", "}">>],   \* {[#if x]}a{[ /if]}
      [before |-> <<"{", "[", "#", "u", "n", "l", "e", "s", "s", " ", "x", "]", "}", "a", "{", "[">>,
       after |-> <<"/", "u", "n", "l", "e", "s", "s", "]", "}">>],   \* {[#unless x]}a{[ /unless]}
      [before |-> <<"{", "[">>,
       after |-> <<"/", "e", "a", "c", "h", "]", "}">>],   \* {[ /each]}
      [before |-> <<"{", "[">>,
       after |-> <<"!", "u", "n", "s", "e", "c", "u", "r", "e", " ", "x", "]", "}">>],   \* {[ !unsecure x]}
      [before |-> <<"{", "[">>,
       after |-> <<"!", "i", "n", "c", "l", "u", "d", "e", " ", "/", "a", "]", "}">>],   \* {[ !include /a]}
      [before |-> <<"{", "[">>,
       after |-> <<"x", " ", "]", "}">>] }   \* {[ x ]}

TagBlanks == {<<>>, <<" ">>, <<"\t">>, <<"\n">>, <<" ", " ">>}

\* the tag alone, and the tag behind a block close at top level
MarkerSources ==
    {behind \o place.before \o blanks \o place.after :
        behind \in {<<>>, <<"{", "[", "/", "i", "f", "]", "}">>}, place \in MarkerPlaces, blanks \in TagBlanks}

\* include tags with up to MaxArgs arguments, keys repeated or not, alone and
\* behind a block close at top level
MaxArgs == 3

IncludeArgTexts ==
    { <<" ", "k", "=", "x">>,   \*  k=x
      <<" ", "j", "=", "y">>,   \*  j=y
      <<" ", "k", " ", "=", " ", "y">>,   \*  k = y
      <<" ", "i", "=", "x", ".", "y">> }   \*  i=x.y

IncludeSources ==
    {behind \o <<"{", "[", "!", "i", "n", "c", "l", "u", "d", "e", " ", "/", "a">> \o args \o close :
        behind \in {<<>>, <<"{", "[", "/", "i", "f", "]", "}">>},
        args \in UNION {PiecesOf(IncludeArgTexts, n) : n \in 0..MaxArgs},
        close \in {<<"]", "}">>, <<" ", "]", "}">>}}

\* sources with a % that opens a comment which is not closed, or that comes
\* after other tokens of its tag
PercentSources ==
    { <<"a", "{", "[", "%", " ", "c">>,   \* a{[% c
      <<"{", "[", "%", " ", "c", " ", "%", "]", "}", "\n", "{", "[", "%", " ", "d">>,   \* {[% c %]}\n{[% d
      <<"{", "[", " ", "x", " ", "%", " ", "y">>,   \* {[ x % y
      <<"a", "{", "[", "-", "%", " ", "c", " ", "-">>,   \* a{[-% c -
      <<"{", "[", "%", " ", "a", " ", "%", " ", "b">>,   \* {[% a % b
      <<"a", "\n", "{", "[", "%", " ", "c">>,   \* a\n{[% c
      <<"{", "[", "%">>,   \* {[%
      <<"a", "\n", " ", "b", "{", "[", " ", "x", " ", "]", "}", "\n", " ", "{", "[", " ", "y", " ", "%", " ", "c">>,   \* a\n b{[ x ]}\n {[ y % c
      <<"{", "[", " ", "x", " ", "%", " ", "y", " ", "]", "}", "b">>,   \* {[ x % y ]}b
      <<"a", "{", "[", " ", "%", " ", "c", " ", "]", "}", "b">>,   \* a{[ % c ]}b
      <<"{", "[", "#", "i", "f", " ", "x", " ", "%", "]", "}", "a", "{", "[", "/", "i", "f", "]", "}">>,   \* {[#if x %]}a{[/if]}
      <<"a", " ", "{", "[", "-", " ", "x", " ", "%", " ", "-", "]", "}", " ", "b">>,   \* a {[- x % -]} b
      <<"{", "[", " ", "x", " ", "]", "}", "{", "[", "%", " ", "c", " ", "]", "}", "{", "[", " ", "y", " ", "%", " ", "d", " ", "]", "}", "z">>,   \* {[ x ]}{[% c ]}{[ y % d ]}z
      <<"{", "[", " ", "x", " ", "%", " ", "]", "}", "{", "[", " ", "]", "}">> }   \* {[ x % ]}{[ ]}

\* the places of a tag where an identifier is expected: the text before it
\* and the text after it
IdentifierPlaces ==
    { [place |-> "segment", before |-> <<"{", "[", " ">>,
       after |-> <<" ", "]", "}">>],   \* {[  W  ]}
      [place |-> "member", before |-> <<"{", "[", " ", "x", ".">>,
       after |-> <<" ", "]", "}">>],   \* {[ x. W  ]}
      [place |-> "condition", before |-> <<"{", "[", "#", "i", "f", " ">>,
       after |-> <<"]", "}", "a", "{", "[", "/", "i", "f", "]", "}">>],   \* {[#if  W ]}a{[/if]}
      [place |-> "collection", before |-> <<"{", "[", "#", "e", "a", "c", "h", " ">>,
       after |-> <<" ", "a", "s", " ", "i", "]", "}", "a", "{", "[", "/", "e", "a", "c", "h", "]", "}">>],   \* {[#each  W  as i]}a{[/each]}
      [place |-> "item", before |-> <<"{", "[", "#", "e", "a", "c", "h", " ", "x", "s", " ", "a", "s", " ">>,
       after |-> <<"]", "}", "a", "{", "[", "/", "e", "a", "c", "h", "]", "}">>],   \* {[#each xs as  W ]}a{[/each]}
      [place |-> "unsecure", before |-> <<"{", "[", "!", "u", "n", "s", "e", "c", "u", "r", "e", " ">>,
       after |-> <<" ", "]", "}">>],   \* {[!unsecure  W  ]}
      [place |-> "key", before |-> <<"{", "[", "!", "i", "n", "c", "l", "u", "d", "e", " ", "/", "a", " ">>,
       after |-> <<"=", "x", "]", "}">>],   \* {[!include /a  W =x]}
      [place |-> "second key", before |-> <<"{", "[", "!", "i", "n", "c", "l", "u", "d", "e", " ", "/", "a", " ", "k", "=", "x", " ">>,
       after |-> <<"=", "y", "]", "}">>],   \* {[!include /a k=x  W =y]}
      [place |-> "argument", before |-> <<"{", "[", "!", "i", "n", "c", "l", "u", "d", "e", " ", "/", "a", " ", "k", "=">>,
       after |-> <<"]", "}">>] }   \* {[!include /a k= W ]}

\* names that are not reserved
PlainWords ==
    { <<"y">>, <<"i", "f", "s">>, <<"i", "n", "n">> }

IdentifierWords == {RESERVED_WORDS[i] : i \in 1..Len(RESERVED_WORDS)} \cup PlainWords

\* the word put at the place
Placed(place, word) == place.before \o word \o place.after

IdentifierSources == {Placed(place, word) : place \in IdentifierPlaces, word \in IdentifierWords}

\* words with an underscore, a digit or a capital, and no word at all
PatternWords ==
    { <<"y", "_", "1">>, <<"Y", "9">>, <<"_", "y">>, <<"1", "y">>, <<>> }

PatternSources == {Placed(place, word) : place \in IdentifierPlaces, word \in PatternWords}

\* texts with the bytes C3 A9 of the UTF-8 character U+00E9, C3 BC of U+00FC
\* and E6 97 A5 of U+65E5, and the single bytes 80, C2 and E9
NonAsciiSources ==
    { <<"C3", "A9">>,
      <<"C3", "BC">>,
      <<"C3", "BC", "{", "[", " ", "x", " ", "]", "}">>,
      <<"E6", "97", "A5">>,
      <<"80">>, <<"C2">>, <<"E9">>,
      <<"C3", "A9", "{", "[", "{", "]", "}", "C3", "A9">>,
      <<"a", "C3", "A9", "{", "[", " ", "x", " ", "]", "}", "C3", "A9", "\n">> }

\* between a tag ending with -]} and the text \nz: a tag, a comment, the text
\* a and a tag, the same tags without the trim marker, a line break and a tag
BetweenSources ==
    { <<"{", "[", " ", "x", " ", "-", "]", "}", "{", "[", " ", "y", " ", "]", "}", "\n", "z">>,
      <<"{", "[", " ", "x", " ", "-", "]", "}", "{", "[", "%", " ", "c", " ", "]", "}", "\n", "z">>,
      <<"{", "[", " ", "x", " ", "-", "]", "}", "a", "{", "[", " ", "y", " ", "]", "}", "\n", "z">>,
      <<"{", "[", " ", "x", " ", "]", "}", "{", "[", " ", "y", " ", "]", "}", "\n", "z">>,
      <<"{", "[", " ", "x", " ", "-", "]", "}", "\n", "{", "[", " ", "y", " ", "]", "}", "\n", "z">> }

\* comment bodies: words with punctuation and digits the lexer has a token
\* for, and bodies with a digit, a quote, a non-ASCII character, an underscore,
\* a bracket, an apostrophe or an asterisk where no token begins with it
CommentBodies ==
    { <<" ", "c", ",", " ", "d", ".", " ">>,
      <<" ", "a", "1", "_", " ">>,
      <<" ", "#", "i", "f", " ", "x", " ", "=", " ", "!", "y", "?", " ">>,
      <<" ", "-", " ", "%", " ", "/", "c", " ">>,
      <<" ", "1", " ">>,
      <<" ", "\"", "c", "\"", " ">>,
      <<" ", "C3", "A9", " ">>,
      <<" ", "_", "c", " ">>,
      <<" ", "c", "]", " ">>,
      <<" ", "i", "t", "'", "s", " ">>,
      <<" ", "c", " ", "*", " ", "d", " ">>,
      <<" ", "c", "-", "]">>,
      <<" ", "c", " ", "1", " ", "C3", "A9", " ">> }

CommentOpen == <<"a", "{", "[", "%">>
CommentClose == <<"]", "}", "b">>

CommentBodySources == {CommentOpen \o body \o CommentClose : body \in CommentBodies}

Sources ==
    CommentSources \cup EscapeSources \cup BlockSources \cup TruncatedSources
        \cup LeftTrimSources \cup RightTrimSources \cup IdentifierSources
        \cup NestedSources \cup MarkerSources \cup IncludeSources \cup PercentSources
        \cup NonAsciiSources \cup PatternSources \cup BetweenSources
        \cup CommentBodySources

(***************************************************************************)
(* The specification                                                       *)
(***************************************************************************)
Init ==
    /\ \/ \E scenario \in Scenarios :
            /\ source = None
            /\ template = scenario.template
            /\ data = scenario.data
            /\ fs = scenario.fs
            /\ include_root = scenario.include_root
            /\ pc = "idle"
            /\ tree = None
       \/ \E text \in Sources :
            /\ source = Some(text)
            /\ template = <<>>
            /\ data = SourceData
            /\ fs = NoFs
            /\ include_root = None
            /\ pc = "source"
            /\ tree = None
       \/ \E parsing \in Trees :
            /\ source = None
            /\ tree = Some(parsing)
            /\ template = <<>>
            /\ data = SourceData
            /\ fs = NoFs
            /\ include_root = None
            /\ pc = "tree"
    /\ built = None
    /\ tokens = None
    /\ processed = None
    /\ parsed = None
    /\ previous = None
    /\ loader_root = None
    /\ cache = <<>>
    /\ include_stack = <<>>
    /\ root = <<>>
    /\ local_stack = <<>>
    /\ frames = <<>>
    /\ results = <<>>
    /\ trace = <<>>

Next ==
    \/ Tokenize
    \/ Process
    \/ Parse
    \/ NatsuzoraParse
    \/ DeleteComment
    \/ StartRender
    \/ RenderText
    \/ RenderVariable
    \/ RenderUnsecure
    \/ RenderComment
    \/ RenderIf
    \/ ReturnIf
    \/ RenderUnless
    \/ ReturnUnless
    \/ RenderEach
    \/ ReturnEach
    \/ RenderInclude
    \/ ReturnInclude
    \/ ReturnTop

Spec == Init /\ [][Next]_vars

\* the steps of a running render call
RenderStep ==
    \/ RenderText \/ RenderVariable \/ RenderUnsecure \/ RenderComment
    \/ RenderIf \/ ReturnIf \/ RenderUnless \/ ReturnUnless
    \/ RenderEach \/ ReturnEach \/ RenderInclude \/ ReturnInclude \/ ReturnTop

\* Renderer::render is one sequential call: the thread that runs it takes the
\* next step of the call as long as there is one
FairSpec == Spec /\ WF_vars(RenderStep)

(***************************************************************************)
(* Properties.  What the text of a node must be is stated without the      *)
(* renderer's own functions: by decoding the entities, and by reading a    *)
(* decimal numeral back.                                                   *)
(***************************************************************************)
Entities == {<<"&", "a", "m", "p", ";">>, <<"&", "l", "t", ";">>, <<"&", "g", "t", ";">>,
             <<"&", "q", "u", "o", "t", ";">>, <<"&", "#", "3", "9", ";">>}

EntityChar(entity) ==
    CASE entity = <<"&", "a", "m", "p", ";">> -> "&"
      [] entity = <<"&", "l", "t", ";">> -> "<"
      [] entity = <<"&", "g", "t", ";">> -> ">"
      [] entity = <<"&", "q", "u", "o", "t", ";">> -> "\""
      [] entity = <<"&", "#", "3", "9", ";">> -> "'"

RECURSIVE Unescape(_)
\* text with each of the five entities replaced by its character
Unescape(text) ==
    IF text = <<>> THEN <<>>
    ELSE IF \E entity \in Entities : StartsWith(text, entity)
    THEN LET entity == CHOOSE en \in Entities : StartsWith(text, en)
         IN  <<EntityChar(entity)>> \o Unescape(SubSeq(text, Len(entity) + 1, Len(text)))
    ELSE <<Head(text)>> \o Unescape(Tail(text))

NoRawSpecial(text) == \A i \in 1..Len(text) : text[i] \notin {"<", ">", "\"", "'"}

EveryAmpersandBeginsEntity(text) ==
    \A i \in 1..Len(text) :
        text[i] = "&" =>
            \E entity \in Entities : StartsWith(SubSeq(text, i, Len(text)), entity)

\* text is str with the five characters replaced and nothing else changed
IsEscapeOf(text, str) ==
    /\ NoRawSpecial(text)
    /\ EveryAmpersandBeginsEntity(text)
    /\ Unescape(text) = str

DigitValue(c) == CHOOSE d \in 0..9 : DigitChars[d + 1] = c

RECURSIVE NumeralValue(_)
NumeralValue(digits) ==
    IF digits = <<>> THEN 0 ELSE 10 * NumeralValue(Front(digits)) + DigitValue(Last(digits))

\* text is the signed decimal numeral of n: digits only, no leading zero, "-" iff n < 0
IsDecimalOf(text, n) ==
    LET digits == IF n < 0 THEN Tail(text) ELSE text
    IN  /\ text # <<>>
        /\ n < 0 => Head(text) = "-"
        /\ digits # <<>>
        /\ \A i \in 1..Len(digits) : is_ascii_digit(digits[i])
        /\ Len(digits) > 1 => Head(digits) # "0"
        /\ NumeralValue(digits) = Abs(n)

IsTypeError(res) == ~res.ok /\ res.err = "TypeError"

Events(kind) == {i \in 1..Len(trace) : trace[i].e = kind}

\* the leaf events of nodes of one kind whose path resolved
Leaves(kind) ==
    {i \in Events("leaf") : trace[i].node.k = kind /\ trace[i].value.ok}

Finished == pc = "idle" /\ results # <<>>

\* C1: a Variable node whose path resolves to a String s emits s with the five
\* characters & < > " ' replaced by their entities and every other character
\* unchanged (nothing is emitted only for "" under `!`); in the template
\* [ {[ v ]} ] that text stands between the brackets of the rendered output.
C1_VariableStringIsEscaped ==
    /\ \A i \in Leaves("Variable") :
        LET ev == trace[i]
        IN  ev.value.val.t = "String" =>
              /\ ev.res.ok <=> ~(ev.node.modifier = "Required" /\ ev.value.val.s = <<>>)
              /\ ev.res.ok => IsEscapeOf(ev.res.val, ev.value.val.s)
    /\ \A m \in Modifiers :
        (/\ Finished
         /\ template = <<TextNode(<<"[">>), VariableNode(<<Id_v>>, m, NoWs),
                         TextNode(<<"]">>)>>
         /\ data.o[Id_v].t = "String"
         /\ ~(m = "Required" /\ data.o[Id_v].s = <<>>))
        => \A r \in 1..Len(results) :
              /\ results[r].ok
              /\ Len(results[r].val) >= 2
              /\ Head(results[r].val) = "["
              /\ Last(results[r].val) = "]"
              /\ IsEscapeOf(SubSeq(results[r].val, 2, Len(results[r].val) - 1),
                            data.o[Id_v].s)

\* a String holding an apostrophe and another special character has been emitted
C1_Witness ==
    \E i \in Leaves("Variable") :
        /\ trace[i].value.val.t = "String"
        /\ \E j \in 1..Len(trace[i].value.val.s) : trace[i].value.val.s[j] = "'"
        /\ \E j \in 1..Len(trace[i].value.val.s) : trace[i].value.val.s[j] \in {"&", "<"}
        /\ trace[i].res.ok

\* the kind of value the table of variable rendering distinguishes
TableKind(value) == IF value.t = "String" /\ value.s = <<>> THEN "EmptyString" ELSE value.t

\* the table: what (modifier, kind) must give
TableEntry(modifier, kind) ==
    CASE kind = "Null" -> IF modifier = "Nullable" THEN "empty" ELSE "TypeError"
      [] kind = "EmptyString" -> IF modifier = "Required" THEN "TypeError" ELSE "empty"
      [] kind = "Integer" -> "decimal"
      [] kind = "String" -> "escaped"
      [] kind \in {"Bool", "Array", "Object"} -> "TypeError"

\* C2: the outcome of a Variable node is the table's entry for (modifier, kind of
\* the resolved value): TypeError, the empty string, the signed decimal text of
\* the Integer, or the escaped text of the String.
C2_VariableTable ==
    \A i \in Leaves("Variable") :
        LET ev == trace[i]
            entry == TableEntry(ev.node.modifier, TableKind(ev.value.val))
        IN  CASE entry = "TypeError" -> IsTypeError(ev.res)
              [] entry = "empty" -> ev.res = Ok(<<>>)
              [] entry = "decimal" -> ev.res.ok /\ IsDecimalOf(ev.res.val, ev.value.val.n)
              [] entry = "escaped" -> ev.res.ok /\ IsEscapeOf(ev.res.val, ev.value.val.s)

\* a Bool under `?` has been refused with TypeError
C2_Witness ==
    \E i \in Leaves("Variable") :
        /\ trace[i].node.modifier = "Nullable"
        /\ trace[i].value.val.t = "Bool"
        /\ IsTypeError(trace[i].res)

\* C3: !unsecure emits a String exactly as it is in the data and an Integer as its
\* decimal text, and fails with TypeError for Null, Bool, Array and Object; in the
\* template {[!unsecure v]} the String is the whole rendered output.
C3_UnsecureIsRaw ==
    /\ \A i \in Leaves("Unsecure") :
        LET ev == trace[i]
        IN  CASE ev.value.val.t = "String" -> ev.res = Ok(ev.value.val.s)
              [] ev.value.val.t = "Integer" ->
                    ev.res.ok /\ IsDecimalOf(ev.res.val, ev.value.val.n)
              [] OTHER -> IsTypeError(ev.res)
    /\ (/\ Finished
        /\ template = <<UnsecureNode(<<Id_v>>, NoWs), CommentNode(NoWs)>>
        /\ data.o[Id_v].t = "String")
       => \A r \in 1..Len(results) : results[r] = Ok(data.o[Id_v].s)

\* a String with a special character has been emitted by !unsecure
C3_Witness ==
    \E i \in Leaves("Unsecure") :
        /\ trace[i].value.val.t = "String"
        /\ \E j \in 1..Len(trace[i].value.val.s) : trace[i].value.val.s[j] \in {"<", "&"}
        /\ trace[i].res.ok
        /\ Finished

\* the falsy values
Falsy == {Bool(FALSE), Null, Integer(0), String(<<>>), Array(<<>>), Object(<<>>)}

IfElseTemplate == <<IfBlock(<<Id_v>>, <<Yes>>, Some(<<No>>), NoWs, Some(NoWs), NoWs)>>
IfTemplate == <<IfBlock(<<Id_v>>, <<Yes>>, None, NoWs, None, NoWs)>>
UnlessTemplate == <<UnlessBlock(<<Id_v>>, <<Yes>>, NoWs, NoWs)>>

\* C4: #if renders its then-branch exactly when the condition's value is none of
\* false, null, 0, "", [], {}, and otherwise its else-branch (nothing without an
\* else); #unless renders its body exactly when #if would not render its
\* then-branch.
C4_Truthiness ==
    /\ \A i \in Events("branch") :
        LET ev == trace[i]
        IN  ev.value.ok =>
              IF ev.node.k = "If"
              THEN ev.taken = (IF ev.value.val \notin Falsy THEN "then"
                               ELSE IF ev.node.else_branch.some THEN "else"
                               ELSE "none")
              ELSE ev.taken = (IF ev.value.val \notin Falsy THEN "none" ELSE "body")
    /\ \A j \in 1..Len(frames) :
        /\ frames[j].kind = "then" => frames[j].nodes = frames[j].node.then_branch
        /\ frames[j].kind = "else" => frames[j].nodes = frames[j].node.else_branch.val
        /\ frames[j].kind = "unless" => frames[j].nodes = frames[j].node.body
    /\ Finished /\ data.t = "Object" /\ Id_v \in DOMAIN data.o =>
        \A r \in 1..Len(results) :
            /\ template = IfElseTemplate =>
                  results[r] = Ok(IF data.o[Id_v] \notin Falsy THEN Yes.content
                                  ELSE No.content)
            /\ template = IfTemplate =>
                  results[r] = Ok(IF data.o[Id_v] \notin Falsy THEN Yes.content ELSE <<>>)
            /\ template = UnlessTemplate =>
                  results[r] = Ok(IF data.o[Id_v] \notin Falsy THEN <<>> ELSE Yes.content)

\* #if on the integer 0 has rendered its else-branch
C4_Witness ==
    /\ Finished
    /\ template = IfElseTemplate
    /\ \E i \in Events("branch") : trace[i].value = Ok(Integer(0)) /\ trace[i].taken = "else"
    /\ Last(results) = Ok(No.content)

\* what {[ x? ]}- renders for one item
ItemText(text, item) ==
    /\ text # <<>> /\ Last(text) = "-"
    /\ CASE item.t = "String" -> IsEscapeOf(Front(text), item.s)
         [] item.t = "Integer" -> IsDecimalOf(Front(text), item.n)
         [] item.t = "Null" -> Front(text) = <<>>
         [] OTHER -> FALSE

ItemBody == <<VariableNode(<<Id_x>>, "Nullable", NoWs), Dash>>

\* C5: #each over an array of length n renders its body exactly n times, the i-th
\* time with the item name bound to a[i], in ascending order, and its output is
\* the concatenation of these renderings (each as trimmed by the block's own trim
\* markers, if it has any); for n = 0 it is empty.
C5_EachRendersEveryItem ==
    /\ \A i \in Events("each") :
        LET ev == trace[i]
            n == Len(ev.array)
        IN  /\ ev.items = ev.array
            /\ Len(ev.outs) = n
            /\ ev.out = Concat([j \in 1..n |->
                                  TrimBody(ev.outs[j], ev.node.whitespace_open.trim_after,
                                           ev.node.whitespace_close.trim_before)])
            /\ ev.node.whitespace_open = NoWs /\ ev.node.whitespace_close = NoWs
                  => ev.out = Concat(ev.outs)
            /\ n = 0 => ev.out = <<>>
            /\ ev.node.body = ItemBody =>
                  \A j \in 1..n : ItemText(ev.outs[j], ev.array[j])
    /\ \A j \in 1..Len(frames) :
        frames[j].kind = "each" =>
            /\ frames[j].index < Len(frames[j].array)
            /\ frames[j].items = SubSeq(frames[j].array, 1, frames[j].index + 1)
            /\ Len(frames[j].outs) = frames[j].index
            /\ Len(local_stack) > Len(frames[j].saved)
            /\ local_stack[Len(frames[j].saved) + 1]
                  = Binding(frames[j].node.item_ident, frames[j].array[frames[j].index + 1])
    /\ pc = "rendering" /\ frames # <<>> /\ Top.kind = "each" =>
        resolve(root, local_stack, <<Top.node.item_ident>>)
            = Ok(Top.array[Top.index + 1])

\* an #each over two different items has rendered both, in order
C5_Witness ==
    \E i \in Events("each") :
        /\ Len(trace[i].array) = MaxArrLen
        /\ trace[i].array[1] # trace[i].array[2]
        /\ trace[i].node.body = ItemBody
        /\ trace[i].node.whitespace_open = NoWs /\ trace[i].node.whitespace_close = NoWs
        /\ trace[i].out # <<>>

\* C6, as claimed: an #each whose item name is already bound when the block is
\* reached fails with ShadowingError, whatever array its collection resolves to.
C6_AsClaimed ==
    \A i \in Events("each_begin") :
        (trace[i].len.ok /\ trace[i].bound) =>
            /\ i = Len(trace)
            /\ Finished
            /\ ~Last(results).ok /\ Last(results).err = "ShadowingError"

AllIds == {Id_v, Id_o, Id_k, Id_u, Id_x, Id_y, Id_xs, Id_name, Id_other}

\* the keys of an include's arguments
ArgKeys(node) == {node.args[i].name : i \in 1..Len(node.args)}

\* the path given for `key` by the last argument that names it
ArgPath(node, key) ==
    node.args[CHOOSE i \in 1..Len(node.args) :
                /\ node.args[i].name = key
                /\ \A j \in (i + 1)..Len(node.args) : node.args[j].name # key].value

ShadowingTemplate ==
    <<VariableNode(<<Id_name>>, "None", NoWs), TextNode(<<"-", ">">>),
      IncludeNode(Name_p, NameArg(<<Id_other>>), NoWs), TextNode(<<"-", ">">>),
      VariableNode(<<Id_name>>, "None", NoWs)>>

C7_InPartial ==
    /\ \A j \in 1..Len(frames) :
        LET caller == frames[j].saved
            node == frames[j].node
        IN  /\ Len(caller) <= Len(local_stack)
            /\ SubSeq(local_stack, 1, Len(caller)) = caller
            /\ frames[j].kind = "include" =>
                /\ Len(local_stack) > Len(caller)
                /\ DOMAIN local_stack[Len(caller) + 1] = ArgKeys(node)
                /\ \A key \in ArgKeys(node) :
                      Ok(local_stack[Len(caller) + 1][key])
                          = resolve(root, caller, ArgPath(node, key))
    /\ pc = "rendering" /\ frames # <<>> =>
        /\ Top.kind \in {"top", "then", "else", "unless"} => local_stack = Top.saved
        /\ Top.kind \in {"each", "include"} =>
              local_stack # <<>> /\ Front(local_stack) = Top.saved
        /\ Top.kind = "include" =>
              \A name \in AllIds :
                  resolve_name(root, local_stack, name)
                      = IF name \in ArgKeys(Top.node)
                        THEN resolve(root, Top.saved, ArgPath(Top.node, name))
                        ELSE resolve_name(root, Top.saved, name)
    /\ Finished /\ trace # <<>> /\ ~Last(results).ok /\ Last(results).err = "ShadowingError"
          => Last(trace).e \in {"each_begin", "each_next"}
    /\ Finished /\ template = ShadowingTemplate
          /\ <<R, PartialFile(<<"p">>)>> \in DOMAIN fs
          /\ fs[<<R, PartialFile(<<"p">>)>>] = File(Greeting)
          => \A r \in 1..Len(results) :
                results[r] = Ok(<<"A", "-", ">", "H", "i", ",", "B", "&", "l", "t", ";",
                                  "-", ">", "A">>)

C7_Leaving ==
    AtEnd("include") =>
        /\ local_stack' = Top.saved
        /\ \A name \in AllIds :
              resolve_name(root', local_stack', name) = resolve_name(root, Top.saved, name)

\* C7: an include argument may use a key that is already bound; no ShadowingError
\* ever comes from an include; while the partial is rendered each argument key
\* resolves to the value its path had in the caller, every other name resolves as
\* in the caller, and when the include has finished every name resolves as it
\* did before the include.
C7_IncludeArgumentsShadow == []C7_InPartial /\ [][C7_Leaving]_vars

\* an include whose argument redefined a name of the root object has finished,
\* and the name has its root value again
C7_Witness ==
    /\ pc = "rendering"
    /\ \E i \in Events("enter") : \E key \in DOMAIN trace[i].bindings :
        /\ key \in DOMAIN root
        /\ trace[i].bindings[key] # root[key]
        /\ \E j \in Events("leave") : j > i /\ trace[j].node = trace[i].node
        /\ resolve_name(root, local_stack, key) = Ok(root[key])

NoDuplicates(seq) == \A i, j \in 1..Len(seq) : seq[i] = seq[j] => i = j

Circular == Err("IncludeError", "Circular include detected")

\* C8: an include of a partial that is already being rendered (directly or
\* through other partials) makes load return the circular-include IncludeError,
\* cached or not; the render ends with that error at once, so no partial is
\* ever rendered inside itself.
C8_CircularInclude ==
    /\ pc = "rendering" => include_stack = Chain(frames)
    /\ pc = "idle" => include_stack = <<>>
    /\ NoDuplicates(Chain(frames))
    /\ \A i \in Events("load") :
        (\E j \in 1..Len(trace[i].chain) : trace[i].chain[j] = trace[i].name) =>
            /\ trace[i].result = Circular
            /\ trace[i].reads = <<>>
            /\ i = Len(trace)
            /\ Finished
            /\ Last(results) = Circular

\* a partial included again through another partial, while it is in the cache
C8_Witness ==
    \E i \in Events("load") :
        /\ Len(trace[i].chain) >= 2
        /\ trace[i].chain[1] = trace[i].name
        /\ trace[i].cached
        /\ Last(results) = Circular

\* the longest prefix of `path` that exists, symbolic links followed
ExistingPrefix(path) ==
    LET lens == {k \in 0..Len(path) : exists(fs, SubSeq(path, 1, k))}
    IN  SubSeq(path, 1, CHOOSE k \in lens : \A m \in lens : m <= k)

\* the file of an include name under the loader's root
CandidatePath(name) == resolve_template_path(loader_root.val, name)

\* `path` with its existing prefix canonicalized
Canonicalized(path) ==
    canonicalize(fs, ExistingPrefix(path)).val
        \o SubSeq(path, Len(ExistingPrefix(path)) + 1, Len(path))

Escapes(name) ==
    LET real == Canonicalized(CandidatePath(name))
        base == loader_root.val
    IN  ~(Len(real) >= Len(base) /\ SubSeq(real, 1, Len(base)) = base)

PathTraversal == Err("IncludeError", "Path traversal detected")

\* C9: for every include name that passes name validation and whose file path,
\* with its existing prefix canonicalized, is neither the loader's canonical root
\* nor below it, load returns the path-traversal IncludeError without reading
\* any file; whatever file load reads lies, canonicalized, below the root.
C9_PathTraversal ==
    \A i \in Events("load") :
        LET ev == trace[i]
        IN  /\ (validate_include_name(ev.name).ok /\ Escapes(ev.name)) =>
                  /\ ev.result = PathTraversal
                  /\ ev.reads = <<>>
                  /\ i = Len(trace)
                  /\ Finished /\ Last(results) = PathTraversal
            /\ \A r \in 1..Len(ev.reads) :
                  LET real == canonicalize(fs, ev.reads[r])
                  IN  /\ real.ok
                      /\ SubSeq(real.val, 1, Len(loader_root.val)) = loader_root.val

\* an include whose file is a symbolic link, or lies behind one, to an existing
\* file outside the root has been refused
C9_Witness ==
    \E i \in Events("load") :
        /\ validate_include_name(trace[i].name).ok
        /\ Escapes(trace[i].name)
        /\ is_file(fs, CandidatePath(trace[i].name))
        /\ trace[i].result = PathTraversal
        /\ Last(results) = PathTraversal

\* C10: the renders of one template with the same data and the same partial
\* files return the same result, whether a render makes a fresh loader or uses
\* the loader, with its cache, of the render before.
C10_Deterministic ==
    \A i, j \in 1..Len(results) : results[i] = results[j]

\* a second render has used the cache of the first and returned its output
C10_Witness ==
    /\ Len(results) >= 2
    /\ Finished
    /\ Last(results).ok
    /\ \E i \in Events("load") : trace[i].cached /\ trace[i].result.ok

(***************************************************************************)
(* The front end: lexer, token processor and parser                        *)
(***************************************************************************)
\* a token that is the first of its tag, and the Close that ends the tag of
\* token i (0 when there is none)
FirstInTag(toks, i) == i = 1 \/ toks[i - 1].token_type \in {"Text", "Close"}

NextClose(toks, i) ==
    LET closes == {j \in (i + 1)..Len(toks) : toks[j].token_type = "Close"}
    IN  IF closes = {} THEN 0 ELSE CHOOSE j \in closes : \A k \in closes : j <= k

\* Natsuzora::parse and at least one render call are over
Settled == pc = "rejected" \/ (pc = "idle" /\ results # <<>>)

\* what the user sees of Natsuzora::parse followed by render: the output, or
\* the kind of error (the locations in an error move with the source)
Outcome(made, rendered) ==
    IF ~made.ok THEN [ok |-> FALSE, err |-> made.err]
    ELSE IF ~rendered[1].ok THEN [ok |-> FALSE, err |-> rendered[1].err]
    ELSE rendered[1]

IsWhitespace(c) == c \in {" ", "\t", "\n", "\r"}

RECURSIVE WhitespaceRemoved(_, _)
\* short is long with some spaces, tabs or line terminators taken out
WhitespaceRemoved(short, long) ==
    IF long = <<>> THEN short = <<>>
    ELSE \/ short # <<>> /\ Head(short) = Head(long)
            /\ WhitespaceRemoved(Tail(short), Tail(long))
         \/ IsWhitespace(Head(long)) /\ WhitespaceRemoved(short, Tail(long))

\* the trim markers of a comment node: its text begins {[- or ends -]}
Marks(text, comment) ==
    WhitespaceControl(StartsWith(utf8_text(comment, text), <<"{", "[", "-">>),
                      EndsWith(utf8_text(comment, text), <<"-", "]", "}">>))

\* the outcome with the comment against the outcome without it
SameButTrimmed(with, without, marks) ==
    IF ~marks.trim_before /\ ~marks.trim_after THEN with = without
    ELSE IF with.ok /\ without.ok THEN WhitespaceRemoved(with.val, without.val)
    ELSE with = without

\* C11 as claimed: deleting a comment tag without trim markers leaves the
\* rendered output unchanged, and deleting one with trim markers changes it
\* only by whitespace, for every template with a comment tag.
C11_AsClaimed ==
    (previous.some /\ Settled) =>
        SameButTrimmed(Outcome(previous.val.built, previous.val.results),
                       Outcome(built.val, results),
                       Marks(previous.val.tree.source, previous.val.comment))

RECURSIVE Escaped(_)
\* text with every {[ written as the escape sequence {[{]}
Escaped(text) ==
    IF text = <<>> THEN <<>>
    ELSE IF Len(text) >= 2 /\ SubSeq(text, 1, 2) = <<"{", "[">>
    THEN <<"{", "[", "{", "]", "}">> \o Escaped(SubSeq(text, 3, Len(text)))
    ELSE <<Head(text)>> \o Escaped(Tail(text))

\* at the 0-based position pos the text has a {[ that is not the start of {[{]}
TagOpensAt(text, pos) ==
    /\ pos + 2 <= Len(text)
    /\ SubSeq(text, pos + 1, pos + 2) = <<"{", "[">>
    /\ ~(pos + 5 <= Len(text) /\ SubSeq(text, pos + 1, pos + 5) = <<"{", "[", "{", "]", "}">>)

\* the end of the text run that begins at the 0-based position from: the next
\* tag open, or the end of the text
RunEnd(text, from) ==
    CHOOSE to \in from..Len(text) :
        /\ to = Len(text) \/ TagOpensAt(text, to)
        /\ \A earlier \in from..(to - 1) : ~TagOpensAt(text, earlier)

\* the bytes of the text run that begins at the 0-based position from
TextRun(text, from) == SubSeq(text, from + 1, RunEnd(text, from))

\* the bytes of a text whose bytes above 0x7F are each read as a character of
\* their own: the character with the number of the byte, written in UTF-8
\* the number of a byte above 0x7F, 0 for any other
NumberOf(byte) ==
    IF \E n \in 128..255 : HighBytes[n - 127] = byte
    THEN CHOOSE n \in 128..255 : HighBytes[n - 127] = byte
    ELSE 0

\* UTF-8 of the character U+0080..U+00FF: 110000xx 10xxxxxx
Utf8(n) == <<HighBytes[(192 + (n \div 64)) - 127], HighBytes[(128 + (n % 64)) - 127]>>

RECURSIVE ByteWise(_)
ByteWise(bytes) ==
    IF bytes = <<>> THEN <<>>
    ELSE (IF NumberOf(Head(bytes)) = 0 THEN <<Head(bytes)>>
          ELSE Utf8(NumberOf(Head(bytes)))) \o ByteWise(Tail(bytes))

\* the Text token covers the bytes of the source from its offset up to the end
\* of the source or the next tag open, each {[{]} in them standing for {[
\* (the bytes taken one by one)
CoversTextRun(text, token) ==
    /\ token.value # <<>>
    /\ Escaped(token.value) = ByteWise(TextRun(text, token.location.byte_offset))

\* C12: every {[{]} in text mode adds exactly {[ to the current Text token
\* and leaves the lexer in text mode: each Text token spells, with {[ written
\* as {[{]}, the source from where it starts to the next tag open or the end,
\* a source that does not begin with a tag open begins with a Text token,
\* and no two Text tokens are neighbours.
C12_EscapeStaysText ==
    (tokens.some /\ tokens.val.ok) =>
        LET toks == tokens.val.val
        IN  /\ \A i \in 1..Len(toks) :
                    toks[i].token_type = "Text" => CoversTextRun(source.val, toks[i])
            /\ (source.val # <<>> /\ ~TagOpensAt(source.val, 0)) =>
                    toks[1].token_type = "Text"
            /\ \A i \in 1..(Len(toks) - 1) :
                    ~(toks[i].token_type = "Text" /\ toks[i + 1].token_type = "Text")

\* a{[{]}a is one Text token a{[a
C12_Witness ==
    /\ tokens.some /\ tokens.val.ok
    /\ source.val = <<"a", "{", "[", "{", "]", "}", "a">>
    /\ Len(tokens.val.val) = 2
    /\ tokens.val.val[1].token_type = "Text"
    /\ tokens.val.val[1].value = <<"a", "{", "[", "a">>

\* the block opens and block closes of a token stream, by position
BlockKeywords == {"KwIf", "KwUnless", "KwEach"}
KeywordAfter(toks, i) ==
    LET at == skip_whitespace(toks, i)
    IN  IF at < Len(toks) THEN toks[at + 1].token_type ELSE "Eof"
BlockOpens(toks) ==
    {i \in 1..Len(toks) : toks[i].token_type = "Hash" /\ FirstInTag(toks, i)
                              /\ KeywordAfter(toks, i) \in BlockKeywords}
BlockCloses(toks) ==
    {i \in 1..Len(toks) : toks[i].token_type = "Slash" /\ FirstInTag(toks, i)}
Depth(toks, i) ==
    Cardinality({j \in BlockOpens(toks) : j < i})
        - Cardinality({j \in BlockCloses(toks) : j < i})
UnmatchedClose(toks) == \E i \in BlockCloses(toks) : Depth(toks, i) <= 0
UnclosedBlock(toks) == Depth(toks, Len(toks)) > 0
EofInTag(toks) == ~FirstInTag(toks, Len(toks))

\* C13 as claimed: parse fails for every token stream with a block close that
\* no open block matches (at top level too), with a block that is not closed
\* before Eof or with Eof inside a tag, and it returns a Template only when
\* it has consumed every token before Eof.
C13_AsClaimed ==
    (parsed.some /\ processed.some /\ processed.val.ok) =>
        LET toks == processed.val.val
        IN  /\ (UnmatchedClose(toks) \/ UnclosedBlock(toks) \/ EofInTag(toks)) =>
                    ~parsed.val.ok
            /\ parsed.val.ok => parse_nodes(toks, 0, <<>>).val.pos = Len(toks) - 1

\* the Dash tokens that open a tag right after a Text token on which no
\* trailing trim marker of the tag before it acts
LeftTrims(toks) ==
    {i \in 2..Len(toks) :
        /\ toks[i].token_type = "Dash" /\ toks[i - 1].token_type = "Text"
        /\ ~(i > 3 /\ toks[i - 2].token_type = "Close" /\ toks[i - 3].token_type = "Dash")}

\* the value of the token of stream toks that was made from token, or the
\* empty text when it was dropped
ValueOf(toks, token) ==
    LET same == {j \in 1..Len(toks) : toks[j].token_type = token.token_type
                                        /\ toks[j].location = token.location}
    IN  IF same = {} THEN <<>> ELSE toks[CHOOSE j \in same : TRUE].value

\* the bytes of the text between the last line break before the 0-based
\* position pos, or the start of the text, and pos
LineBefore(text, pos) ==
    LET breaks == {i \in 1..pos : text[i] \in {"\n", "\r"}}
        from == IF breaks = {} THEN 0 ELSE CHOOSE i \in breaks : \A j \in breaks : j <= i
    IN  SubSeq(text, from + 1, pos)

AllBlank(text) == \A i \in 1..Len(text) : text[i] \in {" ", "\t"}

RECURSIVE WithoutTrailingBlanks(_)
WithoutTrailingBlanks(text) ==
    IF text # <<>> /\ text[Len(text)] \in {" ", "\t"}
    THEN WithoutTrailingBlanks(SubSeq(text, 1, Len(text) - 1))
    ELSE text

\* C14 as claimed: a tag that begins with - takes the trailing spaces and tabs
\* off the Text token before it if and only if everything between the last
\* line break before the tag, or the start of the input, and the tag is
\* spaces and tabs; the line break stays and otherwise the token is unchanged.
C14_AsClaimed ==
    (processed.some /\ processed.val.ok) =>
        \A i \in LeftTrims(tokens.val.val) :
            LET text == tokens.val.val[i - 1]
                line == LineBefore(source.val, tokens.val.val[i].location.byte_offset - 2)
            IN  ValueOf(processed.val.val, text) =
                    IF AllBlank(line) THEN WithoutTrailingBlanks(text.value)
                    ELSE text.value

\* the Text tokens that come right after a tag ending with -]} and that no
\* later tag beginning with - reaches back to
RightTrims(toks) ==
    {i \in 3..Len(toks) :
        /\ toks[i].token_type = "Text"
        /\ toks[i - 1].token_type = "Close" /\ toks[i - 2].token_type = "Dash"
        /\ ~\E k \in (i + 1)..Len(toks) :
                /\ toks[k].token_type = "Dash" /\ FirstInTag(toks, k)
                /\ \A j \in (i + 1)..(k - 1) : toks[j].token_type # "Text"}

\* the number of spaces and tabs the text begins with
LeadingBlanks(text) ==
    LET runs == {n \in 0..Len(text) : AllBlank(SubSeq(text, 1, n))}
    IN  CHOOSE n \in runs : \A m \in runs : m <= n

\* text without its leading blanks and the one line terminator after them,
\* when a line terminator or the end of the text follows the blanks
RightTrimmed(text) ==
    LET rest == SubSeq(text, LeadingBlanks(text) + 1, Len(text))
    IN  IF rest = <<>> THEN <<>>
        ELSE IF Len(rest) >= 2 /\ SubSeq(rest, 1, 2) = <<"\r", "\n">>
        THEN SubSeq(rest, 3, Len(rest))
        ELSE IF Head(rest) \in {"\n", "\r"} THEN Tail(rest)
        ELSE text

\* C15: after a tag that ends with -]} the next Text token loses its leading
\* spaces and tabs and at most one line terminator after them (\n, \r or
\* \r\n) when the blanks are followed by a line terminator or reach the end
\* of the token, and it is emitted unchanged when another character follows.
C15_RightTrim ==
    (processed.some /\ processed.val.ok) =>
        \A i \in RightTrims(tokens.val.val) :
            ValueOf(processed.val.val, tokens.val.val[i])
                = RightTrimmed(tokens.val.val[i].value)

\* of two line feeds after -]} only the first is taken
C15_Witness ==
    /\ processed.some /\ processed.val.ok
    /\ \E i \in RightTrims(tokens.val.val) :
        /\ tokens.val.val[i].value = <<"\n", "\n", "z">>
        /\ ValueOf(processed.val.val, tokens.val.val[i]) = <<"\n", "z">>

(***************************************************************************)
(* Paths and the parser's rules                                            *)
(***************************************************************************)
\* what the first segment names: the binding of the newest local scope that
\* has it, else the member of the root object
Named(root_object, scopes, name) ==
    LET holders == {i \in 1..Len(scopes) : name \in DOMAIN scopes[i]}
    IN  IF holders # {}
        THEN Ok(scopes[CHOOSE i \in holders : \A j \in holders : j <= i][name])
        ELSE IF name \in DOMAIN root_object THEN Ok(root_object[name])
        ELSE [ok |-> FALSE, err |-> "UndefinedVariable"]

RECURSIVE Member(_, _)
\* value followed along the segments, each a member of an object
Member(value, segments) ==
    IF segments = <<>> THEN Ok(value)
    ELSE IF value.t # "Object" THEN [ok |-> FALSE, err |-> "TypeError"]
    ELSE IF Head(segments) \notin DOMAIN value.o
    THEN [ok |-> FALSE, err |-> "UndefinedVariable"]
    ELSE Member(value.o[Head(segments)], Tail(segments))

Looked(root_object, scopes, path) ==
    LET first == Named(root_object, scopes, Head(path))
    IN  IF ~first.ok THEN first ELSE Member(first.val, Tail(path))

\* the value or the kind of error of a result
ValueOrKind(result) == IF result.ok THEN result ELSE [ok |-> FALSE, err |-> result.err]

\* C16: the value a Variable or Unsecure node resolves to is found by looking
\* its first segment up in the local scopes from newest to oldest and then in
\* the root object, and following each later segment as a member of the
\* current object; UndefinedVariable when the first name is bound nowhere or
\* a member is missing, TypeError when a segment is applied to a non-object.
C16_Resolve ==
    [][(AtNode("Variable") \/ AtNode("Unsecure")) =>
            /\ Len(trace') = Len(trace) + 1
            /\ ValueOrKind(trace'[Len(trace')].value) = Looked(root, local_stack, Cur.path)]_vars

\* x was bound by an #each and again by the include inside it, and the
\* partial got the include's value
C16_Witness ==
    /\ Len(local_stack) = 2
    /\ Id_x \in DOMAIN local_stack[1] /\ Id_x \in DOMAIN local_stack[2]
    /\ local_stack[1][Id_x] # local_stack[2][Id_x]
    /\ \E i \in Events("leaf") :
            /\ trace[i].node.path = <<Id_x>>
            /\ trace[i].value = Ok(local_stack[2][Id_x])

\* the source is the word at the place and the parser has answered
ParsedPlaced(place, word) ==
    /\ source = Some(Placed(place, word))
    /\ parsed.some

\* parsing failed with ReservedWord carrying the word
RejectedAsReserved(word) ==
    /\ ~parsed.val.ok
    /\ parsed.val.err = "ReservedWord"
    /\ parsed.val.msg.detail = word

\* C17: a reserved word used as a path segment, as the item name of #each or
\* as the key of an include argument makes parsing fail with ReservedWord
\* carrying that word.
C17_AsClaimed ==
    \A place \in IdentifierPlaces :
        \A i \in 1..Len(RESERVED_WORDS) :
            ParsedPlaced(place, RESERVED_WORDS[i]) => RejectedAsReserved(RESERVED_WORDS[i])

\* the open blocks before a block tag: the keyword of each and whether its
\* #else has been seen, the newest last
Opened(stack, keyword) == Append(stack, [keyword |-> keyword, else_seen |-> FALSE])
ElseSeen(stack) == [stack EXCEPT ![Len(stack)].else_seen = TRUE]

RECURSIVE MismatchedClose(_, _, _)
\* from token i on, a block close whose keyword is not that of the newest
\* open block
MismatchedClose(toks, i, stack) ==
    IF i > Len(toks) THEN FALSE
    ELSE IF i \in BlockOpens(toks)
    THEN MismatchedClose(toks, i + 1, Opened(stack, KeywordAfter(toks, i)))
    ELSE IF i \in BlockCloses(toks)
    THEN IF stack = <<>> THEN MismatchedClose(toks, i + 1, stack)
         ELSE \/ stack[Len(stack)].keyword # KeywordAfter(toks, i)
              \/ MismatchedClose(toks, i + 1, SubSeq(stack, 1, Len(stack) - 1))
    ELSE MismatchedClose(toks, i + 1, stack)

ElseTags(toks) ==
    {i \in 1..Len(toks) : toks[i].token_type = "Hash" /\ FirstInTag(toks, i)
                              /\ KeywordAfter(toks, i) = "KwElse"}

RECURSIVE MisplacedElse(_, _, _)
\* from token i on, an #else that is not directly in the body of an #if, or
\* that is the second one of its #if
MisplacedElse(toks, i, stack) ==
    IF i > Len(toks) THEN FALSE
    ELSE IF i \in BlockOpens(toks)
    THEN MisplacedElse(toks, i + 1, Opened(stack, KeywordAfter(toks, i)))
    ELSE IF i \in BlockCloses(toks)
    THEN MisplacedElse(toks, i + 1,
                       IF stack = <<>> THEN stack ELSE SubSeq(stack, 1, Len(stack) - 1))
    ELSE IF i \in ElseTags(toks)
    THEN IF stack = <<>> THEN TRUE
         ELSE \/ stack[Len(stack)].keyword # "KwIf"
              \/ stack[Len(stack)].else_seen
              \/ MisplacedElse(toks, i + 1, ElseSeen(stack))
    ELSE MisplacedElse(toks, i + 1, stack)

\* C18: a template is accepted only when every block close has the keyword
\* of the block it closes, also under nesting, and every #else stands
\* directly in the body of an #if, once; a template with an #else in an
\* #unless or #each, at top level, or a second time in its #if, makes parsing
\* fail with UnexpectedToken.
C18_AsClaimed ==
    (parsed.some /\ processed.some /\ processed.val.ok) =>
        LET toks == processed.val.val
        IN  /\ parsed.val.ok =>
                    /\ ~MismatchedClose(toks, 1, <<>>)
                    /\ ~MisplacedElse(toks, 1, <<>>)
            /\ MisplacedElse(toks, 1, <<>>) =>
                    ~parsed.val.ok /\ parsed.val.err = "UnexpectedToken"

\* the Whitespace tokens that come first in a tag and stand before a #, /,
\* !unsecure or !include marker
SpecialMarkers == {"Hash", "Slash", "BangUnsecure", "BangInclude"}
WhitespaceBeforeMarker(toks) ==
    {i \in 1..Len(toks) :
        /\ toks[i].token_type = "Whitespace"
        /\ FirstInTag(toks, i)
        /\ KeywordAfter(toks, i - 1) \in SpecialMarkers}

\* parsing failed with the message about whitespace before a marker
RejectedForWhitespace ==
    /\ ~parsed.val.ok
    /\ parsed.val.err = "UnexpectedToken"
    /\ parsed.val.msg.detail[1] = "Whitespace not allowed before '"

\* C19: a template with a tag in which whitespace comes between the tag open
\* and a #, /, !unsecure or !include marker is rejected with a parse error,
\* and a template without such a tag is not rejected for this reason.
C19_AsClaimed ==
    (parsed.some /\ processed.some /\ processed.val.ok) =>
        LET toks == processed.val.val
        IN  /\ WhitespaceBeforeMarker(toks) # {} => ~parsed.val.ok
            /\ WhitespaceBeforeMarker(toks) = {} => ~RejectedForWhitespace

\* the include tags of a token stream and the keys of their arguments, in the
\* order of the source
IncludeTags(toks) ==
    {i \in 1..Len(toks) : toks[i].token_type = "BangInclude" /\ FirstInTag(toks, i)}
Ascending(positions) ==
    CHOOSE seq \in [1..Cardinality(positions) -> positions] :
        \A a, b \in 1..Cardinality(positions) : a < b => seq[a] < seq[b]
KeyPositions(toks, i) ==
    {j \in (i + 1)..NextClose(toks, i) :
        toks[j].token_type = "Ident" /\ KeywordAfter(toks, j) = "Equal"}
KeysOf(toks, i) ==
    LET at == Ascending(KeyPositions(toks, i))
    IN  [n \in 1..Len(at) |-> toks[at[n]].value]
Distinct(keys) == \A a, b \in 1..Len(keys) : a # b => keys[a] # keys[b]
\* the Include nodes at the top of a tree and the keys of each
IncludeNodes(nodes) == SelectSeq(nodes, LAMBDA node : node.k = "Include")
NodeKeys(node) == [n \in 1..Len(node.args) |-> node.args[n].name]

\* C20: include tags with zero or more key=path arguments are accepted and
\* their nodes keep the keys in the order of the source; parsing fails when
\* two arguments of one include tag have the same key, and the keys of every
\* parsed Include node are pairwise distinct.
C20_AsClaimed ==
    (parsed.some /\ processed.some /\ processed.val.ok) =>
        LET toks == processed.val.val
            tags == Ascending(IncludeTags(toks))
        IN  /\ (\E i \in IncludeTags(toks) : ~Distinct(KeysOf(toks, i))) => ~parsed.val.ok
            /\ parsed.val.ok =>
                    LET nodes == IncludeNodes(parsed.val.val)
                    IN  /\ \A n \in 1..Len(nodes) : Distinct(NodeKeys(nodes[n]))
                        /\ Len(nodes) <= Len(tags)
                        /\ \A n \in 1..Len(nodes) : NodeKeys(nodes[n]) = KeysOf(toks, tags[n])
            /\ (source.val \in IncludeSources
                    /\ \A i \in IncludeTags(toks) : Distinct(KeysOf(toks, i))) => parsed.val.ok

(***************************************************************************)
(* The token processor: comments                                           *)
(***************************************************************************)
\* the Percent tokens that no Close follows, and the first of them
OpenPercents(toks) ==
    {i \in 1..Len(toks) :
        /\ toks[i].token_type = "Percent"
        /\ \A j \in (i + 1)..Len(toks) : toks[j].token_type # "Close"}
FirstOpenPercent(toks) ==
    CHOOSE i \in OpenPercents(toks) : \A j \in OpenPercents(toks) : i <= j

\* C21: when the token stream ends while a comment is open, process fails
\* with UnclosedComment carrying the line and column of the % that opened
\* the comment, and returns no tokens; otherwise it returns tokens.
C21_UnclosedComment ==
    (processed.some /\ tokens.some /\ tokens.val.ok) =>
        LET toks == tokens.val.val
        IN  IF OpenPercents(toks) # {}
            THEN processed.val =
                     Err("UnclosedComment",
                         [line |-> toks[FirstOpenPercent(toks)].location.line,
                          column |-> toks[FirstOpenPercent(toks)].location.column])
            ELSE processed.val.ok

\* a comment was closed, a later one on the second line was not, and
\* process has answered
C21_Witness ==
    /\ processed.some /\ ~processed.val.ok
    /\ \E i \in 1..Len(tokens.val.val) :
            /\ tokens.val.val[i].token_type = "Percent"
            /\ i < FirstOpenPercent(tokens.val.val)
            /\ i \notin OpenPercents(tokens.val.val)
    /\ \E text \in PercentSources :
            /\ source.val = text
            /\ processed.val.msg.line = 2

(***************************************************************************)
(* #each over a value that is not an array                                 *)
(***************************************************************************)
NotArrayTypes == {"Null", "Bool", "Integer", "String", "Object"}

\* the value the collection path of the #each about to be rendered resolves to
EachCollection == resolve(root, local_stack, Cur.collection)

\* C22: an #each whose collection path resolves to null, a bool, an integer, a
\* string or an object ends the render call with TypeError in that very step: no
\* scope is pushed, no frame for the body is opened, no iteration is recorded and
\* no output is returned.
C22_EachTypeError ==
    [][(AtNode("Each") /\ EachCollection.ok /\ EachCollection.val.t \in NotArrayTypes)
        => /\ pc' = "idle" /\ frames' = <<>> /\ local_stack' = <<>>
           /\ Len(results') = Len(results) + 1
           /\ ~Last(results').ok /\ Last(results').err = "TypeError"
           /\ Len(trace') = Len(trace) + 1
           /\ Last(trace').e = "each_begin" /\ Last(trace').node = Cur]_vars

\* an #each over an object with a member and one over a string with characters
\* have failed with TypeError
C22_Witness ==
    /\ Finished /\ ~Last(results).ok /\ Last(results).err = "TypeError"
    /\ trace # <<>> /\ Last(trace).e = "each_begin"
    /\ data.t = "Object" /\ Id_v \in DOMAIN data.o
    /\ Last(trace).node.collection = <<Id_v>>
    /\ \/ data.o[Id_v].t = "Object" /\ DOMAIN data.o[Id_v].o # {}
       \/ data.o[Id_v].t = "String" /\ data.o[Id_v].s # <<>>

(***************************************************************************)
(* The loader's cache                                                      *)
(***************************************************************************)
\* the cache `new` holds everything the cache `old` holds
Extends(new, old) ==
    /\ DOMAIN old \subseteq DOMAIN new
    /\ \A n \in DOMAIN old : new[n] = old[n]

\* the load event of the step that renders an include
LoadEvent == trace'[Len(trace) + 1]

\* C23: a load of a name that is in the cache reads no file, leaves the cache as
\* it is and returns the cached Template, unless the name is on the include stack
\* (circular); a file is read only for a name that is not in the cache, and then
\* only the file of that name; while a loader is in use its cache only grows, by
\* the Template a successful load returned, and a render call starts either with
\* the cache of the loader it is handed or with the empty cache of a new loader.
C23_CacheHit ==
    [][/\ (AtNode("Include") /\ loader_root.some) =>
            /\ Len(trace') > Len(trace) /\ LoadEvent.e = "load" /\ LoadEvent.name = Cur.name
            /\ Cur.name \in DOMAIN cache =>
                  /\ LoadEvent.reads = <<>>
                  /\ cache' = cache
                  /\ IF \E i \in 1..Len(include_stack) : include_stack[i] = Cur.name
                     THEN ~LoadEvent.result.ok
                     ELSE LoadEvent.result = Ok(cache[Cur.name])
            /\ LoadEvent.reads # <<>> =>
                  /\ Cur.name \notin DOMAIN cache
                  /\ LoadEvent.reads
                        = <<resolve_template_path(loader_root.val, Cur.name)>>
            /\ cache' # cache =>
                  /\ LoadEvent.result.ok
                  /\ DOMAIN cache' = DOMAIN cache \cup {Cur.name}
                  /\ cache'[Cur.name] = LoadEvent.result.val
       /\ pc = "rendering" => Extends(cache', cache)
       /\ pc = "idle" => cache' = cache \/ cache' = <<>>]_vars

\* a later render call with the same loader has taken a partial from the cache
\* that an earlier call put there
C23_Witness ==
    /\ results # <<>>
    /\ \E i \in Events("load") :
            /\ trace[i].cached /\ trace[i].result.ok /\ trace[i].reads = <<>>
            /\ \A j \in Events("load") : i <= j

(***************************************************************************)
(* Errors and their locations                                              *)
(***************************************************************************)

\* C24, as claimed: the error of a render call that failed at a node is of a
\* variant that has a location, and the error Natsuzora::parse returns has the
\* line and the column of the error of natsuzora_ast::parse in its location.
C24_AsClaimed ==
    /\ (Finished /\ ~Last(results).ok /\ trace # <<>>) =>
            "location" \in NatsuzoraError[Last(results).err]
    /\ (built.some /\ ~built.val.ok) =>
            /\ "location" \in NatsuzoraError[built.val.err]
            /\ built.val.location.line = built.val.message.msg.line
            /\ built.val.location.column = built.val.message.msg.column

(***************************************************************************)
(* The order of the steps of an include                                    *)
(***************************************************************************)
\* what the i-th argument of the include about to be rendered resolves to in the
\* caller's context
OuterValue(i) == resolve(root, local_stack, Cur.args[i].value)

FailingArgs == {i \in 1..Len(Cur.args) : ~OuterValue(i).ok}

\* the last argument that names `key`
LastArg(key) ==
    CHOOSE i \in 1..Len(Cur.args) :
        /\ Cur.args[i].name = key
        /\ \A j \in (i + 1)..Len(Cur.args) : Cur.args[j].name # key

\* the include stack once the includes around the failing one have popped
\* their own names
IsPrefix(short, long) ==
    Len(short) <= Len(long) /\ short = SubSeq(long, 1, Len(short))

\* C25: an include first loads its partial, then resolves its arguments in source
\* order against the caller's context, then pushes its name and its scope and
\* renders the partial, then pops the scope and the name.  So a failing load is
\* reported whatever the arguments are; a failing argument is reported after a
\* successful load (the partial is in the cache) and it is the first failing one;
\* in both cases no name and no scope are pushed for this include; and an
\* argument's value is what its path means outside the include, also when the
\* path is the key of another argument.
C25_IncludeOrder ==
    [][/\ (AtNode("Include") /\ loader_root.some) =>
            /\ ~LoadEvent.result.ok =>
                  /\ pc' = "idle" /\ Last(results') = LoadEvent.result
            /\ (LoadEvent.result.ok /\ FailingArgs # {}) =>
                  /\ pc' = "idle"
                  /\ \E i \in FailingArgs :
                        /\ \A j \in FailingArgs : i <= j
                        /\ Last(results') = OuterValue(i)
                  /\ Cur.name \in DOMAIN cache'
            /\ pc' = "idle" =>
                  /\ Len(trace') = Len(trace) + 1
                  /\ IsPrefix(include_stack', include_stack)
                  /\ Len(include_stack') = Len(include_stack) - Len(Chain(frames))
            /\ (LoadEvent.result.ok /\ FailingArgs = {}) =>
                  /\ pc' = "rendering"
                  /\ include_stack' = Append(include_stack, Cur.name)
                  /\ Len(local_stack') = Len(local_stack) + 1
                  /\ IsPrefix(local_stack, local_stack')
                  /\ DOMAIN Last(local_stack') = {Cur.args[i].name : i \in 1..Len(Cur.args)}
                  /\ \A key \in DOMAIN Last(local_stack') :
                        Last(local_stack')[key] = OuterValue(LastArg(key)).val
                  /\ Len(frames') = Len(frames) + 1
                  /\ Last(frames').kind = "include"
                  /\ Last(frames').nodes = LoadEvent.result.val.nodes
                  /\ Last(trace').e = "enter"
       /\ AtEnd("include") =>
            /\ Last(include_stack) = Top.node.name
            /\ include_stack' = Front(include_stack)
            /\ local_stack' = Front(local_stack)
            /\ Len(frames') = Len(frames) - 1]_vars

\* an include whose second argument has the key of the first as its path has
\* been rendered: the second argument got the caller's value of that name
C25_Witness ==
    \E i \in Events("enter") : \E j \in Events("leave") :
        /\ i < j
        /\ Len(trace[i].node.args) = 2
        /\ trace[i].node.args[2].value = <<trace[i].node.args[1].name>>
        /\ trace[i].bindings[trace[i].node.args[2].name] = data.o[Id_name]
        /\ trace[i].bindings[Id_name] = data.o[Id_other]
        /\ data.o[Id_name] # data.o[Id_other]

(***************************************************************************)
(* The include stack and the partials being rendered                       *)
(***************************************************************************)
InChain(ev) == \E k \in 1..Len(ev.chain) : ev.chain[k] = ev.name

\* the load events of a name whose rendering had been entered and left before
LoadedAgain ==
    {i \in Events("load") :
        \E j \in Events("enter") : \E k \in Events("leave") :
            /\ j < k /\ k < i
            /\ trace[j].node.name = trace[i].name
            /\ trace[k].node.name = trace[i].name}

\* C26: load reports a circular include only for a partial that is being
\* rendered; the include stack is the chain of the partials being rendered, and
\* it is empty when no render call is running, also after a call that failed
\* inside a partial; a partial whose rendering is over is loaded again without
\* error, so two includes of it in a row and one per iteration of an #each work.
C26_CircularOnlyInProgress ==
    /\ \A i \in Events("load") :
            (~trace[i].result.ok /\ trace[i].result = Circular) => InChain(trace[i])
    /\ IF pc = "rendering" THEN include_stack = Chain(frames) ELSE include_stack = <<>>
    /\ \A i \in LoadedAgain :
            ~InChain(trace[i]) => (trace[i].result.ok /\ trace[i].cached)

\* a partial has been rendered once per item of an #each over two items, and a
\* render call that failed inside a partial is over
C26_Witness ==
    /\ \E i \in LoadedAgain :
            /\ trace[i].chain = <<>> /\ trace[i].result.ok
            /\ \E j \in Events("each_begin") : j < i /\ trace[j].len = Ok(2)
            /\ Cardinality({k \in Events("leave") : trace[k].node.name = trace[i].name}) = 2

(***************************************************************************)
(* The token processor: which tokens are dropped                           *)
(***************************************************************************)
\* the first token of the tag that holds token i
TagStart(toks, i) ==
    CHOOSE j \in 1..i : FirstInTag(toks, j) /\ \A k \in (j + 1)..i : ~FirstInTag(toks, k)

\* the first token of that tag which is not a Dash (the Eof at the latest)
FirstNonDash(toks, i) ==
    CHOOSE j \in TagStart(toks, i)..Len(toks) :
        /\ toks[j].token_type # "Dash"
        /\ \A k \in TagStart(toks, i)..(j - 1) : toks[k].token_type = "Dash"

\* token i stands in a tag whose first token that is not a Dash is Percent
InCommentTag(toks, i) == toks[FirstNonDash(toks, i)].token_type = "Percent"

\* the tokens that are neither Text nor Dash nor part of a comment tag
RECURSIVE KeptFrom(_, _)
KeptFrom(toks, i) ==
    IF i > Len(toks) THEN <<>>
    ELSE IF toks[i].token_type \in {"Text", "Dash"} \/ InCommentTag(toks, i)
    THEN KeptFrom(toks, i + 1)
    ELSE <<toks[i]>> \o KeptFrom(toks, i + 1)

IsTagToken(token) == token.token_type # "Text"

\* C27, as claimed: what process returns holds, beside its Text tokens, exactly
\* the tokens of the input that are not Dash and do not stand in a tag whose
\* first token other than Dash is Percent, unchanged and in their order; so a
\* Percent further back in a tag is in the output, with all that follows it.
C27_AsClaimed ==
    (processed.some /\ processed.val.ok) =>
        SelectSeq(processed.val.val, IsTagToken) = KeptFrom(tokens.val.val, 1)

(***************************************************************************)
(* The token processor: Text tokens that a trim has emptied                *)
(***************************************************************************)
\* C28, as claimed: no Text token of the stream that process returns has empty
\* content.
C28_AsClaimed ==
    (processed.some /\ processed.val.ok) =>
        \A i \in 1..Len(processed.val.val) :
            processed.val.val[i].token_type = "Text" => processed.val.val[i].value # <<>>

(***************************************************************************)
(* The token processor: which Text token a leading - changes               *)
(***************************************************************************)
\* Text token i stands right before a tag that begins with -
BeforeLeftTrim(toks, i) == i < Len(toks) /\ toks[i + 1].token_type = "Dash"

\* a -]} stands before Text token i with no other Text token between them:
\* the trailing trim of that tag acts on token i
RightTrimReaches(toks, i) ==
    \E k \in 1..(i - 2) :
        /\ toks[k].token_type = "Dash" /\ toks[k + 1].token_type = "Close"
        /\ \A j \in (k + 2)..(i - 1) : toks[j].token_type # "Text"

\* C29, as claimed: a Text token on which no trailing trim acts is changed by
\* process only when the tag directly after it begins with -; a tag beginning
\* with - that directly follows the ]} of another tag changes no Text token.
C29_AsClaimed ==
    (processed.some /\ processed.val.ok) =>
        \A i \in 1..Len(tokens.val.val) :
            LET text == tokens.val.val[i]
            IN  (/\ text.token_type = "Text"
                 /\ ~RightTrimReaches(tokens.val.val, i)
                 /\ ValueOf(processed.val.val, text) # text.value)
                    => BeforeLeftTrim(tokens.val.val, i)

(***************************************************************************)
(* Trimming at render time and trimming the token stream                   *)
(***************************************************************************)
\* the source text of a template of TrimTemplates
SourceOf(nodes) ==
    nodes[1].content
        \o <<"{", "[">> \o (IF nodes[2].whitespace.trim_before THEN <<"-">> ELSE <<>>)
        \o <<" ", "v", " ">>
        \o (IF nodes[2].whitespace.trim_after THEN <<"-">> ELSE <<>>) \o <<"]", "}">>
        \o nodes[3].content

\* the nodes the token processor and the parser make of a source text
ProcessedNodes(text) == parse(process(tokenize(text).val).val).val

\* what render_nodes returns for nodes without trim flags and without blocks:
\* the texts and the values, one after the other
PlainOutput(nodes, value) ==
    Concat([i \in 1..Len(nodes) |->
              IF nodes[i].k = "Text" THEN nodes[i].content
              ELSE render_variable(value.o, <<>>, nodes[i]).val])

\* C30, as claimed: a template text {[ v ]} text whose tag carries its trim
\* markers as flags renders to the same output as the nodes that the token
\* processor and the parser make of its source text.
C30_AsClaimed ==
    (Finished /\ template \in TrimTemplates /\ Last(results).ok) =>
        Last(results).val = PlainOutput(ProcessedNodes(SourceOf(template)), data)

(***************************************************************************)
(* The lexer: the bytes of a Text token                                    *)
(***************************************************************************)
\* C31, as claimed: the content of every Text token is, byte for byte, the run
\* of the source it was made from, with {[ for every {[{]}.
C31_AsClaimed ==
    (tokens.some /\ tokens.val.ok) =>
        \A i \in 1..Len(tokens.val.val) :
            tokens.val.val[i].token_type = "Text" =>
                Escaped(tokens.val.val[i].value)
                    = TextRun(source.val, tokens.val.val[i].location.byte_offset)


(***************************************************************************)
(* The scope stack around a node                                           *)
(***************************************************************************)
\* the step is the last one of an #each: its "each" event is recorded
EachEnds ==
    /\ Len(trace') > Len(trace)
    /\ trace'[Len(trace')].e = "each"

\* the scopes and the root object over one step of a call that goes on
ScopeDiscipline ==
    /\ root' = root
    /\ Len(frames') = Len(frames) =>
          IF AtEnd("each")
          THEN /\ Len(local_stack') = Len(local_stack)
               /\ Front(local_stack') = Front(local_stack)
               /\ Front(local_stack') = Top.saved
          ELSE local_stack' = local_stack
    /\ Len(frames') > Len(frames) =>
          /\ Last(frames').saved = local_stack
          /\ IF Last(frames').kind \in {"each", "include"}
             THEN Len(local_stack') = Len(local_stack) + 1
                  /\ Front(local_stack') = local_stack
             ELSE local_stack' = local_stack
    /\ Len(frames') < Len(frames) =>
          /\ local_stack' = Top.saved
          /\ IF Top.kind \in {"each", "include"}
             THEN local_stack # <<>> /\ local_stack' = Front(local_stack)
             ELSE local_stack' = local_stack

\* C32: a node that renders leaves the scope stack as it was before the node:
\* an #each iteration and an include push one scope and pop that same scope,
\* the root object is never modified, and once an #each is over its item name
\* does not resolve.
C32_AsClaimed ==
    [][pc = "rendering" /\ pc' = "rendering" =>
          /\ ScopeDiscipline
          /\ EachEnds =>
                ~resolve(root', local_stack',
                         <<trace'[Len(trace')].node.item_ident>>).ok]_vars


(***************************************************************************)
(* The identifiers of a parsed template                                    *)
(***************************************************************************)
RECURSIVE PathsIn(_)
\* the paths of the nodes: variables, conditions, collections, argument values
PathsIn(nodes) ==
    IF nodes = <<>> THEN {}
    ELSE LET node == Head(nodes)
             own ==
                 IF node.k \in {"Variable", "Unsecure"} THEN {node.path}
                 ELSE IF node.k = "If"
                 THEN {node.condition} \cup PathsIn(node.then_branch)
                          \cup (IF node.else_branch.some
                                THEN PathsIn(node.else_branch.val) ELSE {})
                 ELSE IF node.k = "Unless" THEN {node.condition} \cup PathsIn(node.body)
                 ELSE IF node.k = "Each" THEN {node.collection} \cup PathsIn(node.body)
                 ELSE IF node.k = "Include"
                 THEN {node.args[i].value : i \in 1..Len(node.args)}
                 ELSE {}
         IN  own \cup PathsIn(Tail(nodes))

RECURSIVE NamesIn(_)
\* the #each item names and the include argument keys of the nodes
NamesIn(nodes) ==
    IF nodes = <<>> THEN {}
    ELSE LET node == Head(nodes)
             own ==
                 IF node.k = "If"
                 THEN NamesIn(node.then_branch)
                          \cup (IF node.else_branch.some
                                THEN NamesIn(node.else_branch.val) ELSE {})
                 ELSE IF node.k = "Unless" THEN NamesIn(node.body)
                 ELSE IF node.k = "Each" THEN {node.item_ident} \cup NamesIn(node.body)
                 ELSE IF node.k = "Include"
                 THEN {node.args[i].name : i \in 1..Len(node.args)}
                 ELSE {}
         IN  own \cup NamesIn(Tail(nodes))

\* [A-Za-z][A-Za-z0-9_]*
MatchesIdentifier(word) ==
    /\ word # <<>>
    /\ Head(word) \in Lower \cup Upper
    /\ \A i \in 2..Len(word) :
          word[i] \in Lower \cup Upper \cup {"_"}
              \cup {"0", "1", "2", "3", "4", "5", "6", "7", "8", "9"}

\* C33: in every template that tokenize, process and parse produce, every path
\* segment, #each item name and include argument key matches
\* [A-Za-z][A-Za-z0-9_]*, is not a reserved word and does not begin with an
\* underscore, and every path has at least one segment.
C33_IdentifiersValid ==
    (parsed.some /\ parsed.val.ok) =>
        /\ \A path \in PathsIn(parsed.val.val) : Len(path) >= 1
        /\ \A path \in PathsIn(parsed.val.val) : \A i \in 1..Len(path) :
              /\ MatchesIdentifier(path[i])
              /\ path[i] \notin {RESERVED_WORDS[w] : w \in 1..Len(RESERVED_WORDS)}
              /\ Head(path[i]) # "_"
        /\ \A name \in NamesIn(parsed.val.val) :
              /\ MatchesIdentifier(name)
              /\ name \notin {RESERVED_WORDS[w] : w \in 1..Len(RESERVED_WORDS)}
              /\ Head(name) # "_"

\* a template was produced whose include argument has a key with an underscore
\* and a digit and a path of one segment
C33_Witness ==
    /\ parsed.some /\ parsed.val.ok
    /\ <<"y", "_", "1">> \in NamesIn(parsed.val.val)
    /\ \E path \in PathsIn(parsed.val.val) : Len(path) = 1
    /\ \E i \in 1..Len(parsed.val.val) : parsed.val.val[i].k = "Include"


(***************************************************************************)
(* Termination of a render call                                            *)
(***************************************************************************)
\* C34: every render call terminates, with output or an error: the call that
\* is running when n results have been returned returns the next result.
C34_RenderTerminates ==
    \A n \in 0..(MaxRenders - 1) :
        (pc = "rendering" /\ Len(results) = n)
            ~> (pc = "idle" /\ Len(results) = n + 1 /\ frames = <<>>)

\* a call has returned after the second of two nested partials asked for a
\* partial of the chain and was refused
C34_Witness ==
    /\ Finished
    /\ \E i \in Events("load") :
          Len(trace[i].chain) >= 2 /\ trace[i].result = Circular


(***************************************************************************)
(* The include stack from one render call to the next                      *)
(***************************************************************************)
\* the call that is over failed before it left a partial it had entered
FailedInPartial ==
    /\ Finished /\ ~Last(results).ok
    /\ Events("enter") # {}
    /\ Cardinality(Events("leave")) < Cardinality(Events("enter"))

\* C35: a render call that starts with an empty include stack returns with an
\* empty include stack, with output or with an error raised anywhere inside a
\* partial; so in a later call of the same loader no load reports a circular
\* include for a partial that is not being rendered.
C35_IncludeStackRestored ==
    [][/\ (pc = "idle" /\ pc' = "rendering" /\ include_stack = <<>>)
            => include_stack' = <<>>
       /\ (pc = "rendering" /\ pc' = "idle") => include_stack' = <<>>
       /\ (pc = "rendering" /\ pc' = "rendering") =>
            Len(include_stack') - Len(include_stack) = Len(Chain(frames')) - Len(Chain(frames))
       /\ (pc' = "rendering" /\ Len(trace') > Len(trace) /\ results # <<>>) =>
            \A i \in (Len(trace) + 1)..Len(trace') :
                (trace'[i].e = "load" /\ trace'[i].chain = <<>>)
                    => trace'[i].result # Circular]_vars

\* the second call of a loader, whose first call failed inside a partial, has
\* entered that partial again and failed inside it again
C35_Witness ==
    /\ Len(results) = 2 /\ results[1] = results[2]
    /\ FailedInPartial
    /\ \E i \in Events("load") :
          trace[i].cached /\ trace[i].chain = <<>> /\ trace[i].result.ok


(***************************************************************************)
(* The token processor: which Text token a trailing - changes              *)
(***************************************************************************)
\* Text token i stands right after a tag that ended with -]}
AfterRightTrim(toks, i) ==
    i > 2 /\ toks[i - 1].token_type = "Close" /\ toks[i - 2].token_type = "Dash"

\* a tag that begins with - comes after Text token i with no Text token
\* between them: its leading trim acts on token i
LeftTrimReaches(toks, i) ==
    \E k \in (i + 1)..Len(toks) :
        /\ toks[k].token_type = "Dash" /\ FirstInTag(toks, k)
        /\ \A j \in (i + 1)..(k - 1) : toks[j].token_type # "Text"

\* process took something off the front of the Text token
FrontChanged(text) == ~IsPrefix(ValueOf(processed.val.val, text), text.value)

\* C36, as claimed: a Text token is right-trimmed only when the tag or comment
\* directly before it ended with -]}; with another tag between that tag and
\* the Text token, the Text token is emitted unchanged.
C36_AsClaimed ==
    (processed.some /\ processed.val.ok) =>
        \A i \in 1..Len(tokens.val.val) :
            (tokens.val.val[i].token_type = "Text" /\ FrontChanged(tokens.val.val[i]))
                => AfterRightTrim(tokens.val.val, i)

\* C36, amended: a trailing -]} trims the next Text token of the stream,
\* whatever tags and comments lie between; a Text token is right-trimmed only
\* when a tag or comment before it, with no other Text token between them,
\* ended with -]}, and then it is trimmed as after that tag.
C36_RightTrimNextText ==
    (processed.some /\ processed.val.ok) =>
        \A i \in 1..Len(tokens.val.val) :
            LET text == tokens.val.val[i]
            IN  text.token_type = "Text" =>
                    /\ FrontChanged(text) => RightTrimReaches(tokens.val.val, i)
                    /\ RightTrimReaches(tokens.val.val, i) =>
                          IsPrefix(ValueOf(processed.val.val, text),
                                   RightTrimmed(text.value))
                    /\ (/\ RightTrimReaches(tokens.val.val, i)
                        /\ ~LeftTrimReaches(tokens.val.val, i)) =>
                          ValueOf(processed.val.val, text) = RightTrimmed(text.value)

\* the text \nz has lost its line break to the -]} of a tag that is not the
\* tag directly before it
C36_Witness ==
    /\ processed.some /\ processed.val.ok
    /\ \E i \in 1..Len(tokens.val.val) :
          /\ tokens.val.val[i].token_type = "Text"
          /\ tokens.val.val[i].value = <<"\n", "z">>
          /\ ValueOf(processed.val.val, tokens.val.val[i]) = <<"z">>
          /\ ~AfterRightTrim(tokens.val.val, i)
          /\ RightTrimReaches(tokens.val.val, i)
          /\ \E j \in 1..(i - 1) : tokens.val.val[j].token_type = "Ident"
                                      /\ tokens.val.val[j].value = <<"y">>


(***************************************************************************)
(* Whitespace control and the text of values                               *)
(***************************************************************************)
RECURSIVE TextFree(_)
\* the nodes hold no literal text and no include, at any depth
TextFree(nodes) ==
    IF nodes = <<>> THEN TRUE
    ELSE LET node == Head(nodes)
         IN  /\ node.k \notin {"Text", "Include"}
             /\ node.k = "If" =>
                   /\ TextFree(node.then_branch)
                   /\ node.else_branch.some => TextFree(node.else_branch.val)
             /\ node.k \in {"Unless", "Each"} => TextFree(node.body)
             /\ TextFree(Tail(nodes))

\* the texts the variables and unsecure outputs of the call produced, in order
ValueTexts ==
    LET leaves == SelectSeq(trace, LAMBDA ev : ev.e = "leaf")
    IN  [i \in 1..Len(leaves) |-> leaves[i].res.val]

\* C37, as claimed: whitespace control removes characters only from literal
\* template text, so a template without literal text renders to the texts of
\* its variables and unsecure outputs, one after the other, whatever trim
\* markers its tags carry.
C37_AsClaimed ==
    (Finished /\ Last(results).ok /\ TextFree(template)) =>
        Last(results).val = Concat(ValueTexts)

(***************************************************************************)
(* Paths that do not resolve                                               *)
(***************************************************************************)
\* the path names nothing: its first name is bound in no scope and is no
\* member of the root object, or a later segment is missing from an object
Unresolved(path) ==
    Looked(root, local_stack, path) = [ok |-> FALSE, err |-> "UndefinedVariable"]

\* the paths the node about to be rendered evaluates: the path of an output,
\* the condition of #if and #unless, the collection of #each, and of an include
\* whose partial loaded the values of its arguments up to the first failing one
PathsEvaluated ==
    IF AtNode("Variable") \/ AtNode("Unsecure") THEN {Cur.path}
    ELSE IF AtNode("If") \/ AtNode("Unless") THEN {Cur.condition}
    ELSE IF AtNode("Each") THEN {Cur.collection}
    ELSE IF AtNode("Include") /\ loader_root.some /\ LoadEvent.result.ok
    THEN {Cur.args[i].value : i \in {j \in 1..Len(Cur.args) : \A f \in FailingArgs : j <= f}}
    ELSE {}

\* C38: a node that evaluates a path naming nothing ends the render call with
\* UndefinedVariable, whatever the node is: {[ p? ]} and {[ p! ]} emit nothing
\* and go no further, #if p takes neither branch, #unless p does not render its
\* body, #each enters no iteration, and an include binds no argument and does
\* not enter its partial.
C38_UndefinedAlwaysFails ==
    [][(pc = "rendering" /\ \E path \in PathsEvaluated : Unresolved(path)) =>
            /\ pc' = "idle"
            /\ ~Last(results').ok /\ Last(results').err = "UndefinedVariable"
            /\ frames' = <<>> /\ local_stack' = <<>>
            /\ \A i \in (Len(trace) + 1)..Len(trace') : trace'[i].e # "enter"]_vars

\* inside an #each, an #if with an {[#else]} whose condition u is bound nowhere
\* ended the call with UndefinedVariable
C38_Witness ==
    /\ Finished /\ ~Last(results).ok /\ Last(results).err = "UndefinedVariable"
    /\ Events("each_begin") # {}
    /\ trace[Len(trace)].e = "branch"
    /\ trace[Len(trace)].node.k = "If"
    /\ trace[Len(trace)].node.else_branch.some
    /\ trace[Len(trace)].node.condition = <<Id_u>>
    /\ trace[Len(trace)].taken = "error"

(***************************************************************************)
(* What a comment may hold                                                 *)
(***************************************************************************)
CommentBody(text) == SubSeq(text, Len(CommentOpen) + 1, Len(text) - Len(CommentClose))

\* the source is a{[% body ]}b and the body holds no ]}
HasCommentShape(text) ==
    /\ Len(text) >= Len(CommentOpen) + Len(CommentClose)
    /\ SubSeq(text, 1, Len(CommentOpen)) = CommentOpen
    /\ SubSeq(text, Len(text) - Len(CommentClose) + 1, Len(text)) = CommentClose
    /\ ~Contains(CommentBody(text), <<"]", "}">>)

WordCharacter(c) == c \in Lower \cup Upper \cup {"0", "1", "2", "3", "4", "5", "6", "7", "8", "9", "_"}

\* a token of the tag grammar begins at or runs over the i-th character: white
\* space, one of % - # / ! . , = ?, a letter, or a digit or underscore in a
\* word that began with a letter
LexableAt(body, i) ==
    \/ body[i] \in {" ", "\t", "\r", "\n", "%", "-", "#", "/", "!", ".", ",", "=", "?"}
    \/ \E j \in 1..i :
            /\ body[j] \in Lower \cup Upper
            /\ \A k \in j..i : WordCharacter(body[k])

Unlexable(body) == {i \in 1..Len(body) : ~LexableAt(body, i)}

TypesAndValues(toks) == [i \in 1..Len(toks) |-> <<toks[i].token_type, toks[i].value>>]

CommentGone == << <<"Text", <<"a">> >>, <<"Text", <<"b">> >>, <<"Eof", <<>> >> >>

\* C39, as claimed: for every body without ]} the source a{[% body ]}b is
\* tokenized and processed without error and what process returns is the two
\* texts and Eof.
C39_AsClaimed ==
    (source.some /\ HasCommentShape(source.val)) =>
        /\ tokens.some => tokens.val.ok
        /\ processed.some =>
                processed.val.ok /\ TypesAndValues(processed.val.val) = CommentGone

\* C39: the body of a comment is tokenized as the inside of any tag.  A body
\* made of white space, the characters % - # / ! . , = ? and words that begin
\* with a letter is tokenized and processed without error and none of its
\* tokens is in what process returns; for any other body tokenize fails with
\* SyntaxError at the first character no token begins with.
C39_CommentBodies ==
    (source.some /\ HasCommentShape(source.val) /\ tokens.some) =>
        LET body == CommentBody(source.val)
            first == CHOOSE i \in Unlexable(body) : \A j \in Unlexable(body) : i <= j
        IN  IF Unlexable(body) = {}
            THEN /\ tokens.val.ok
                 /\ processed.some =>
                        processed.val.ok /\ TypesAndValues(processed.val.val) = CommentGone
            ELSE /\ tokens.val = Err("SyntaxError",
                                     Location(1, Len(CommentOpen) + first,
                                              Len(CommentOpen) + first - 1))
                 /\ ~processed.some

\* a{[% c, d. ]}b was processed: the comma, the full stop and the words of the
\* comment were tokens and none of them is left
C39_Witness ==
    /\ source = Some(CommentOpen \o <<" ", "c", ",", " ", "d", ".", " ">> \o CommentClose)
    /\ tokens.some /\ tokens.val.ok
    /\ \E i \in 1..Len(tokens.val.val) : tokens.val.val[i].token_type = "Comma"
    /\ \E i \in 1..Len(tokens.val.val) : tokens.val.val[i].token_type = "Dot"
    /\ processed.some /\ processed.val.ok
    /\ TypesAndValues(processed.val.val) = CommentGone

=============================================================================
